---- MODULE Spec2Model ----
(***************************************************************************)
(* Eva Geises, the Namibia group bot (src/main.py): the response decision  *)
(* of EnhancedNamibiaBot and the layered retrieval of                      *)
(* EnhancedKnowledgeBase over the SQLite store of src/knowledge_base.py.   *)
(*                                                                         *)
(* Text is a sequence of one-character strings, so that Python's           *)
(* substring test, split, strip, lower and replace are computed on the     *)
(* characters.  Clock values are minutes.  A random draw random.random()   *)
(* is an integer number of hundredths, 0..99.  A score is a rational       *)
(* <<numerator, denominator>>.  SmartFeatures (src/smart_features.py), the *)
(* table of src/kb.py and the handle_group_message coroutines of the event *)
(* loop follow, each with a specification of its own.                      *)
(***************************************************************************)
EXTENDS Integers, Sequences, FiniteSets, TLC

VARIABLES
    now,             \* the wall clock, datetime.now(), in minutes
    last_activity,   \* EnhancedNamibiaBot.last_activity: str(chat_id) -> time
    query_logs,      \* Database.query_logs: number of logged rows per user
    knowledge,       \* table knowledge of KnowledgeBase (set of rows)
    knowledge_fts,   \* table knowledge_fts of KnowledgeBase (set of rows)
    sqlite_sequence, \* AUTOINCREMENT of knowledge.id: the largest id given out
    last_sync,       \* KnowledgeBase.last_sync: time of the last successful sync
    user_interests,  \* EnhancedKnowledgeBase.user_interests: user -> category -> count
    clock,              \* the wall clock, datetime.now(), in seconds
    user_message_count, \* SmartFeatures.user_message_count: chat_key -> times
    user_warnings,      \* SmartFeatures.user_warnings: chat_key -> level
    last_greeting_time, \* SmartFeatures.last_greeting_time: chat_id -> time
    spam_history,       \* history: chat_key -> the times of all calls of check_spam
    greet_history,      \* history: chat_id -> the calls should_greet_chat gave True to
    greet_asked,        \* history: the chats should_greet_chat was called for
    kb_knowledge,       \* table knowledge of src/kb.py (set of rows)
    kb_fts,             \* table knowledge_fts of src/kb.py (set of rows)
    kb_sequence,        \* AUTOINCREMENT of the table of src/kb.py
    tasks,              \* the handle_group_message coroutines of the event loop
    running,            \* the coroutine the event loop is running, 0 when none
    writer,             \* history: chat -> the coroutine that wrote last_activity last
    out              \* the arguments and the outcome of the last call

\* the object of src/smart_features.py, the tables of src/kb.py, the event loop
smart == <<clock, user_message_count, user_warnings, last_greeting_time, spam_history,
           greet_history, greet_asked>>
kb == <<kb_knowledge, kb_fts, kb_sequence>>
loop == <<tasks, running, writer>>

vars == <<now, last_activity, query_logs, knowledge, knowledge_fts, sqlite_sequence,
          last_sync, user_interests, smart, kb, loop, out>>

-----------------------------------------------------------------------------
(* Bounds of the model *)

MaxTime == 45       \* the clock stops advancing here
TickMinutes == 15   \* the clock advances in steps of this many minutes
MaxDrift == 1       \* minutes that may pass between two clock reads of one call
DrawStep == 10      \* random draws are the multiples of this, in hundredths
MaxTracked == 1     \* track_user_interest is called at most this many times

-----------------------------------------------------------------------------
(* Python str operations on sequences of characters *)

UpperChars == <<"A","B","C","D","E","F","G","H","I","J","K","L","M",
                "N","O","P","Q","R","S","T","U","V","W","X","Y","Z">>
LowerChars == <<"a","b","c","d","e","f","g","h","i","j","k","l","m",
                "n","o","p","q","r","s","t","u","v","w","x","y","z">>
DigitChars == {"0","1","2","3","4","5","6","7","8","9"}

LowerChar(c) ==
    IF \E i \in 1..26 : UpperChars[i] = c
    THEN LowerChars[CHOOSE i \in 1..26 : UpperChars[i] = c]
    ELSE c

\* the sequence of the n values f[1], ..., f[n], as a tuple
Tuple(f, n) == SubSeq(f, 1, n)

\* str.lower()
Lower(s) == Tuple([i \in 1..Len(s) |-> LowerChar(s[i])], Len(s))

IsSpace(c) == c \in {" ", "\t"}

RECURSIVE LStrip(_)
LStrip(s) == IF s # <<>> /\ IsSpace(Head(s)) THEN LStrip(Tail(s)) ELSE s

RECURSIVE RStrip(_)
RStrip(s) ==
    IF s # <<>> /\ IsSpace(s[Len(s)]) THEN RStrip(SubSeq(s, 1, Len(s) - 1)) ELSE s

\* str.strip()
Strip(s) == RStrip(LStrip(s))

\* t in s
Contains(s, t) == \E i \in 0..(Len(s) - Len(t)) : SubSeq(s, i + 1, i + Len(t)) = t

\* s.startswith(t)
StartsWith(s, t) == Len(t) <= Len(s) /\ SubSeq(s, 1, Len(t)) = t

\* the length of the longest prefix of s whose characters are all in chars (inside)
\* or all outside chars (~inside)
PrefixLen(s, chars, inside) ==
    IF \E i \in 1..Len(s) : (s[i] \in chars) # inside
    THEN (CHOOSE i \in 1..Len(s) :
             /\ (s[i] \in chars) # inside
             /\ \A j \in 1..(i - 1) : (s[j] \in chars) = inside) - 1
    ELSE Len(s)

\* str.split(): the maximal runs of non-whitespace characters
RECURSIVE Split(_)
Split(s) ==
    LET t == LStrip(s)
    IN  IF t = <<>> THEN <<>>
        ELSE LET n == PrefixLen(t, {" ", "\t"}, FALSE)
             IN  <<SubSeq(t, 1, n)>> \o Split(SubSeq(t, n + 1, Len(t)))

\* str.replace(old, new), old non-empty: every occurrence, left to right
RECURSIVE Replace(_, _, _)
Replace(s, old, new) ==
    IF Len(s) < Len(old) THEN s
    ELSE IF SubSeq(s, 1, Len(old)) = old
         THEN new \o Replace(SubSeq(s, Len(old) + 1, Len(s)), old, new)
         ELSE <<Head(s)>> \o Replace(Tail(s), old, new)

\* ' '.join(words)
RECURSIVE Join(_)
Join(words) ==
    IF words = <<>> THEN <<>>
    ELSE IF Len(words) = 1 THEN words[1]
         ELSE words[1] \o <<" ">> \o Join(Tail(words))

\* any(term in s for term in terms)
AnyIn(terms, s) == \E i \in 1..Len(terms) : Contains(s, terms[i])

\* the elements of a sequence
Range(f) == {f[i] : i \in DOMAIN f}

-----------------------------------------------------------------------------
(* The users, the chats and their records *)

Users == {1, 2, 3}
Chats == {101, 102}

\* str(chat_id), the key of last_activity
str(chat_id) == CASE chat_id = 101 -> "101" [] chat_id = 102 -> "102"
                 [] chat_id = 1 -> "1" [] chat_id = 2 -> "2" [] chat_id = 3 -> "3"

\* Database.get_user_stats: the number of rows of query_logs of the user
get_user_stats(user_id) == [query_count |-> query_logs[user_id]]

\* UserProfile.get_user_behavior
get_user_behavior(user_id) ==
    LET stats == get_user_stats(user_id)
    IN  [query_frequency |-> stats.query_count,
         engagement_level |->
             IF stats.query_count > 10 THEN "high"
             ELSE IF stats.query_count > 3 THEN "medium" ELSE "low"]

-----------------------------------------------------------------------------
(* EnhancedNamibiaBot.decide_response *)

personal_terms == <<<<"y","o","u","r"," ","n","a","m","e">>, <<"w","h","o"," ","a","r","e"," ","y","o","u">>, <<"e","v","a">>, <<"g","e","i","s","e","s">>, <<"s","u","p","e","r","v","i","s","o","r">>>>
bot_mentions == <<<<"@","n","a","m","i","b","i","a","b","o","t">>, <<"@","n","a","m","i","b","i","a","_","b","o","t">>, <<"n","a","m","i","b","i","a"," ","b","o","t">>, <<"e","v","a">>, <<"g","e","i","s","e","s">>,
                  <<"h","e","y"," ","e","v","a">>, <<"h","e","l","l","o"," ","e","v","a">>>>
greetings == <<<<"h","i">>, <<"h","e","l","l","o">>, <<"h","e","y">>, <<"g","o","o","d"," ","m","o","r","n","i","n","g">>, <<"g","o","o","d"," ","a","f","t","e","r","n","o","o","n">>,
               <<"g","o","o","d"," ","e","v","e","n","i","n","g">>, <<"m","o","r","o">>, <<"g","r","e","e","t","i","n","g","s">>>>
question_words == <<<<"w","h","a","t">>, <<"h","o","w">>, <<"w","h","e","r","e">>, <<"w","h","e","n">>, <<"w","h","y">>, <<"w","h","o">>, <<"w","h","i","c","h">>,
                    <<"c","a","n"," ","y","o","u">>, <<"t","e","l","l"," ","m","e">>, <<"e","x","p","l","a","i","n">>>>
kb_topics == <<<<"e","t","o","s","h","a">>, <<"s","o","s","s","u","s","v","l","e","i">>, <<"s","w","a","k","o","p","m","u","n","d">>, <<"w","i","n","d","h","o","e","k">>, <<"h","i","m","b","a">>, <<"h","e","r","e","r","o">>,
               <<"d","e","s","e","r","t">>, <<"d","u","n","e","s">>, <<"f","i","s","h"," ","r","i","v","e","r">>, <<"c","h","e","e","t","a","h">>, <<"e","l","e","p","h","a","n","t">>, <<"l","i","o","n">>,
               <<"v","i","s","a">>, <<"c","u","r","r","e","n","c","y">>, <<"w","e","a","t","h","e","r">>>>
travel_words == <<<<"t","r","a","v","e","l">>, <<"t","o","u","r">>, <<"v","i","s","i","t">>, <<"t","r","i","p">>, <<"v","a","c","a","t","i","o","n">>, <<"h","o","l","i","d","a","y">>, <<"s","a","f","a","r","i">>,
                  <<"d","e","s","t","i","n","a","t","i","o","n">>, <<"t","o","u","r","i","s","t">>, <<"f","l","i","g","h","t">>, <<"h","o","t","e","l">>>>
supervision_triggers == <<<<"h","e","l","p"," ","m","e">>, <<"i"," ","n","e","e","d">>, <<"c","a","n"," ","s","o","m","e","o","n","e">>, <<"d","o","e","s"," ","a","n","y","o","n","e"," ","k","n","o","w">>,
                          <<"l","o","o","k","i","n","g"," ","f","o","r">>, <<"s","e","a","r","c","h","i","n","g"," ","f","o","r">>>>

QuietMinutes == 30

\* random.random() can return these, in hundredths
Draws == {k * DrawStep : k \in 0..(99 \div DrawStep)}

\* is_chat_quiet with the comparison reversed
is_chat_quiet_flipped(la, chat_id, t, minutes) ==
    IF str(chat_id) \notin DOMAIN la THEN TRUE
    ELSE t - la[str(chat_id)] < minutes

\* is_chat_quiet(chat_id, minutes) read at clock value t
is_chat_quiet(la, chat_id, t, minutes) ==
    IF str(chat_id) \notin DOMAIN la THEN TRUE
    ELSE t - la[str(chat_id)] > minutes

\* response_types.sort(key=lambda x: x[1], reverse=True): stable, by weight, descending
RECURSIVE InsertByWeight(_, _)
InsertByWeight(x, sorted) ==
    IF sorted = <<>> THEN <<x>>
    ELSE IF Head(sorted)[2] >= x[2]
         THEN <<Head(sorted)>> \o InsertByWeight(x, Tail(sorted))
         ELSE <<x>> \o sorted

\* the candidates in the order of the rules
SortByWeight_none(types) == types

RECURSIVE SortByWeight(_)
SortByWeight(types) ==
    IF types = <<>> THEN <<>>
    ELSE InsertByWeight(types[Len(types)], SortByWeight(SubSeq(types, 1, Len(types) - 1)))

\* the candidates the eight text rules append, in the order of the code
text_response_types(message) ==
    (IF AnyIn(personal_terms, message) THEN << <<"personal_id", 100>> >> ELSE <<>>)
    \o (IF AnyIn(bot_mentions, message) THEN << <<"direct_mention", 95>> >> ELSE <<>>)
    \o (IF \E i \in 1..Len(greetings) : greetings[i] \in Range(Split(Lower(message)))
        THEN << <<"greeting", 75>> >> ELSE <<>>)
    \o (IF Contains(message, <<"?">>)
           \/ \E i \in 1..Len(question_words) : StartsWith(Lower(message), question_words[i])
        THEN << <<"question", 85>> >> ELSE <<>>)
    \o (IF Contains(Lower(message), <<"n","a","m","i","b","i","a">>) \/ Contains(Lower(message), <<"n","a","m","i","b","i","a","n">>)
        THEN << <<"namibia_mention", 70>> >> ELSE <<>>)
    \o (IF AnyIn(kb_topics, Lower(message)) THEN << <<"specific_topic", 80>> >> ELSE <<>>)
    \o (IF AnyIn(travel_words, Lower(message)) THEN << <<"travel", 65>> >> ELSE <<>>)
    \o (IF AnyIn(supervision_triggers, Lower(message))
        THEN << <<"supervision", 90>> >> ELSE <<>>)

\* analyze_message: message.lower().strip()
Normalize(message) == Strip(Lower(message))

\* the messages sent to the groups
Messages == {<<"h","e","l","l","o"," ","e","v","e","r","y","o","n","e">>, <<"e","v","a">>, <<"@","n","a","m","i","b","i","a","b","o","t">>, <<>>, <<" ","\t"," ">>, <<"o","k"," ","t","h","a","n","k","s">>, <<"e","t","o","s","h","a">>,
             <<"t","h","i","s">>, <<"H","e","l","l","o"," ","E","v","a","?">>, <<"i"," ","n","e","e","d"," ","a"," ","h","o","t","e","l">>, <<"w","h","a","t"," ","i","s"," ","n","a","m","i","b","i","a">>,
             <<"g","o","o","d"," ","m","o","r","n","i","n","g"," ","a","l","l">>}

\* text_response_types of every normalized message, evaluated once
TextTypes == [m \in {Normalize(x) : x \in Messages} |-> text_response_types(m)]

\* the quiet-chat rule without its test of is_chat_quiet
quiet_response_types_unguarded(supervision_mode, la, chat_id, t, coin) ==
    IF supervision_mode /\ coin < 50
    THEN << <<"conversation_starter", 60>> >> ELSE <<>>

\* the candidate of the quiet-chat rule; coin is the draw of random.random() < 0.5
quiet_response_types(supervision_mode, la, chat_id, t, coin) ==
    IF supervision_mode /\ is_chat_quiet(la, chat_id, t, QuietMinutes) /\ coin < 50
    THEN << <<"conversation_starter", 60>> >> ELSE <<>>

\* engagement_factor, in tenths
engagement_factor(level) ==
    IF level = "high" THEN 12 ELSE IF level = "medium" THEN 10 ELSE 8

\* decide_response(message, user_id, chat_id): la is last_activity at the call, t the
\* clock read by is_chat_quiet, coin and r the two draws, dbFails whether the
\* database read of get_user_behavior raises
decide_response(message, user_id, chat_id, la, t, coin, r, dbFails) ==
    LET response_types ==
            TextTypes[message]
            \o quiet_response_types(TRUE, la, chat_id, t, coin)
        sorted == SortByWeight(response_types)
        top_response == sorted[1]
        factor == engagement_factor(get_user_behavior(user_id).engagement_level)
        \* random.random() < (top_response[1] / 100) * engagement_factor
        fires == top_response[2] >= 40 /\ r * 10 < top_response[2] * factor
    IN  IF response_types = <<>>
        THEN [candidates |-> <<>>, respond |-> FALSE, category |-> "None",
              raised |-> FALSE]
        ELSE IF dbFails
             THEN [candidates |-> response_types, respond |-> FALSE,
                   category |-> "None", raised |-> TRUE]
             ELSE [candidates |-> response_types, respond |-> fires,
                   category |-> IF fires THEN top_response[1] ELSE "None",
                   raised |-> FALSE]

\* a recording that keeps the record of the current chat only
record_activity_single(la, chat_id, t) ==
    [k \in {str(chat_id)} |-> t]

\* analyze_message sets last_activity[str(chat_id)] = datetime.now()
record_activity(la, chat_id, t) ==
    [k \in DOMAIN la \cup {str(chat_id)} |-> IF k = str(chat_id) THEN t ELSE la[k]]

\* a search for every category
should_search_always(response_type) == TRUE

\* generate_response searches the knowledge base for these categories only
should_search(response_type) ==
    response_type \in {"direct_mention", "question", "specific_topic",
                       "namibia_mention", "travel", "supervision"}

-----------------------------------------------------------------------------
(* Scores: rationals <<numerator, denominator>>, denominator > 0 *)

Rat(n) == <<n, 1>>
RatLt(a, b) == a[1] * b[2] < b[1] * a[2]
RatLe(a, b) == a[1] * b[2] <= b[1] * a[2]
RatMul(a, b) == <<a[1] * b[1], a[2] * b[2]>>
\* Python's max(a, b): the first of the greatest
RatMax(a, b) == IF RatLt(a, b) THEN b ELSE a

-----------------------------------------------------------------------------
(* KnowledgeBase.search (src/knowledge_base.py) *)

WordChars == Range(LowerChars) \cup Range(UpperChars) \cup DigitChars \cup {"_"}
AlnumChars == Range(LowerChars) \cup Range(UpperChars) \cup DigitChars

NotWordChar(c) == c \notin WordChars

IsAlnum(c) == c \in AlnumChars

\* the tokens the FTS5 tokenizer makes of a text: its maximal runs of letters and
\* digits, in lower case
RECURSIVE TokenSeq(_)
TokenSeq(s) ==
    IF s = <<>> THEN <<>>
    ELSE IF ~IsAlnum(Head(s)) THEN TokenSeq(Tail(s))
    ELSE LET n == PrefixLen(s, AlnumChars, TRUE)
         IN  <<Lower(SubSeq(s, 1, n))>> \o TokenSeq(SubSeq(s, n + 1, Len(s)))

\* the row INSERT INTO knowledge_fts (rowid, category, topic, content, keywords)
\* writes for a row of knowledge: the columns, and the tokens the index keeps of each
fts_row(k) ==
    [rowid |-> k.id, category |-> k.category, topic |-> k.topic,
     content |-> k.content, keywords |-> k.keywords,
     tokens |-> [topic |-> TokenSeq(k.topic), content |-> TokenSeq(k.content),
                 category |-> TokenSeq(k.category), keywords |-> TokenSeq(k.keywords)]]

\* knowledge_fts MATCH '"t1" OR "t2" ...': the tokens of a quoted term are a phrase,
\* which matches a row when they follow each other in one of its columns
fts_match(f, phrases) ==
    \E k \in 1..Len(phrases) :
        /\ phrases[k] # <<>>
        /\ \/ Contains(f.tokens.topic, phrases[k])
           \/ Contains(f.tokens.content, phrases[k])
           \/ Contains(f.tokens.category, phrases[k])
           \/ Contains(f.tokens.keywords, phrases[k])

\* the phrases of the quoted terms
RECURSIVE phrases_of(_)
phrases_of(search_terms) ==
    IF search_terms = <<>> THEN <<>>
    ELSE <<TokenSeq(Head(search_terms))>> \o phrases_of(Tail(search_terms))

\* column LIKE '%query%'
Like(column, query) == Contains(Lower(column), Lower(query))

\* the CASE of the ORDER BY of the fallback query
like_class(k, query) ==
    IF Like(k.topic, query) THEN 1 ELSE IF Like(k.content, query) THEN 2 ELSE 3

\* the ids of S in the order of the sequence rank
OrderBy(rank, S) == SelectSeq(rank, LAMBDA id : id \in S)

\* the first limit elements
Limit(s, limit) == SubSeq(s, 1, IF Len(s) < limit THEN Len(s) ELSE limit)

\* dict(row) of the columns both queries select
as_dict(k) == [category |-> k.category, topic |-> k.topic, content |-> k.content,
               keywords |-> k.keywords]

\* [term for term in query.lower().split() if len(term) > 2]
search_terms_of(query) == SelectSeq(Split(Lower(query)), LAMBDA term : Len(term) > 2)

\* the ids the FTS query selects: rows of knowledge_fts joined to knowledge on id = rowid
fts_ids(kn, fts, query) ==
    LET phrases == phrases_of(search_terms_of(query))
    IN  {k.id : k \in {x \in kn : \E f \in fts : f.rowid = x.id /\ fts_match(f, phrases)}}

\* a fallback query that selects the first row of the table whatever the pattern
like_ids_default_row(kn, query) ==
    {k.id : k \in {x \in kn : \A y \in kn : x.id <= y.id}}

\* the ids the fallback LIKE query selects
like_ids(kn, query) ==
    {k.id : k \in {x \in kn : Like(x.topic, query) \/ Like(x.content, query)
                                \/ Like(x.keywords, query)}}

row_of(kn, id) == CHOOSE k \in kn : k.id = id

\* search(query, limit) after ensure_data.  rank is the order in which the engine
\* yields rows of equal sort key (ORDER BY rank of the FTS query, ties of the CASE
\* of the fallback query); fails: the store raises, which search turns into []
kb_search_unguarded(kn, fts, query0, limit, rank, fails) ==
    LET query == Strip(query0)
        hits == fts_ids(kn, fts, query)
        likes == like_ids(kn, query)
        by_class(c) == OrderBy(rank, {id \in likes : like_class(row_of(kn, id), query) = c})
        ids == IF hits # {} THEN Limit(OrderBy(rank, hits), limit)
               ELSE Limit(by_class(1) \o by_class(2) \o by_class(3), limit)
    IN  IF fails THEN <<>>
        ELSE Tuple([i \in 1..Len(ids) |-> as_dict(row_of(kn, ids[i]))], Len(ids))

kb_search(kn, fts, query0, limit, rank, fails) ==
    LET query == Strip(query0)
        search_terms == search_terms_of(query)
        hits == fts_ids(kn, fts, query)
        likes == like_ids(kn, query)
        by_class(c) == OrderBy(rank, {id \in likes : like_class(row_of(kn, id), query) = c})
        ids == IF hits # {} THEN Limit(OrderBy(rank, hits), limit)
               ELSE Limit(by_class(1) \o by_class(2) \o by_class(3), limit)
    IN  IF fails THEN <<>>
        ELSE IF query = <<>> THEN <<>>
        ELSE IF search_terms = <<>> THEN <<>>
        ELSE Tuple([i \in 1..Len(ids) |-> as_dict(row_of(kn, ids[i]))], Len(ids))

\* has_data
has_data(kn) == Cardinality(kn) > 0

TourismCategories == {<<"T","o","u","r","i","s","m">>, <<"G","e","o","g","r","a","p","h","y">>, <<"W","i","l","d","l","i","f","e">>, <<"C","u","l","t","u","r","e">>}

\* ensure_data changes nothing when the store has data and seed_namibia_tourism_data
\* finds more than 5 rows of the tourism categories
store_is_seeded(kn) ==
    has_data(kn) /\ Cardinality({k \in kn : k.category \in TourismCategories}) > 5

-----------------------------------------------------------------------------
(* EnhancedKnowledgeBase (src/main.py) *)

synonyms == <<
    <<<<"n","a","m","i","b","i","a">>, <<<<"n","a","m","i","b","i","a","n">>, <<"n","a","m","i","b","i","a","s">>, <<"n","a","m","i","b">>, <<"r","e","p","u","b","l","i","c"," ","o","f"," ","n","a","m","i","b","i","a">>>> >>,
    <<<<"w","i","n","d","h","o","e","k">>, <<<<"c","a","p","i","t","a","l">>, <<"c","i","t","y">>, <<"m","a","i","n"," ","c","i","t","y">>, <<"c","a","p","i","t","a","l"," ","c","i","t","y">>>> >>,
    <<<<"e","t","o","s","h","a">>, <<<<"e","t","o","s","h","a"," ","p","a","r","k">>, <<"n","a","t","i","o","n","a","l"," ","p","a","r","k">>, <<"w","i","l","d","l","i","f","e"," ","p","a","r","k">>, <<"g","a","m","e"," ","r","e","s","e","r","v","e">>, <<"e","t","o","s","h","a"," ","p","a","n">>>> >>,
    <<<<"s","o","s","s","u","s","v","l","e","i">>, <<<<"s","a","n","d"," ","d","u","n","e","s">>, <<"n","a","m","i","b"," ","d","e","s","e","r","t">>, <<"d","u","n","e","s">>, <<"r","e","d"," ","d","u","n","e","s">>, <<"d","e","a","d"," ","v","l","e","i">>, <<"d","e","a","d","v","l","e","i">>>> >>,
    <<<<"s","w","a","k","o","p","m","u","n","d">>, <<<<"c","o","a","s","t","a","l"," ","t","o","w","n">>, <<"g","e","r","m","a","n"," ","t","o","w","n">>, <<"b","e","a","c","h"," ","t","o","w","n">>, <<"c","o","a","s","t">>, <<"s","w","a","k","o","p">>>> >>,
    <<<<"f","i","s","h"," ","r","i","v","e","r">>, <<<<"c","a","n","y","o","n">>, <<"f","i","s","h"," ","r","i","v","e","r"," ","c","a","n","y","o","n">>, <<"h","i","k","i","n","g"," ","c","a","n","y","o","n">>, <<"c","a","n","y","o","n"," ","h","i","k","e">>>> >>,
    <<<<"h","i","m","b","a">>, <<<<"r","e","d"," ","p","e","o","p","l","e">>, <<"o","c","h","r","e"," ","p","e","o","p","l","e">>, <<"t","r","i","b","a","l"," ","p","e","o","p","l","e">>, <<"i","n","d","i","g","e","n","o","u","s">>, <<"h","i","m","b","a"," ","t","r","i","b","e">>>> >>,
    <<<<"h","e","r","e","r","o">>, <<<<"v","i","c","t","o","r","i","a","n"," ","d","r","e","s","s">>, <<"t","r","a","d","i","t","i","o","n","a","l"," ","d","r","e","s","s">>, <<"h","e","r","e","r","o"," ","w","o","m","e","n">>, <<"h","e","r","e","r","o"," ","t","r","i","b","e">>>> >>,
    <<<<"v","i","s","a">>, <<<<"e","n","t","r","y"," ","r","e","q","u","i","r","e","m","e","n","t","s">>, <<"t","r","a","v","e","l"," ","d","o","c","u","m","e","n","t","s">>, <<"p","e","r","m","i","t">>, <<"v","i","s","a"," ","r","e","q","u","i","r","e","m","e","n","t","s">>>> >>,
    <<<<"c","u","r","r","e","n","c","y">>, <<<<"m","o","n","e","y">>, <<"c","a","s","h">>, <<"n","a","d">>, <<"n","a","m","i","b","i","a","n"," ","d","o","l","l","a","r">>, <<"r","a","n","d","s">>, <<"e","x","c","h","a","n","g","e">>>> >>,
    <<<<"w","e","a","t","h","e","r">>, <<<<"c","l","i","m","a","t","e">>, <<"t","e","m","p","e","r","a","t","u","r","e">>, <<"s","e","a","s","o","n">>, <<"r","a","i","n">>, <<"s","u","n","n","y">>, <<"d","r","y">>>> >>,
    <<<<"w","i","l","d","l","i","f","e">>, <<<<"a","n","i","m","a","l","s">>, <<"s","a","f","a","r","i">>, <<"g","a","m","e">>, <<"f","a","u","n","a">>, <<"c","r","e","a","t","u","r","e","s">>, <<"m","a","m","m","a","l","s">>>> >>,
    <<<<"h","i","s","t","o","r","y">>, <<<<"p","a","s","t">>, <<"h","i","s","t","o","r","i","c","a","l">>, <<"h","e","r","i","t","a","g","e">>, <<"c","o","l","o","n","i","a","l">>, <<"i","n","d","e","p","e","n","d","e","n","c","e">>>> >>,
    <<<<"c","u","l","t","u","r","e">>, <<<<"p","e","o","p","l","e">>, <<"t","r","a","d","i","t","i","o","n","s">>, <<"c","u","s","t","o","m","s">>, <<"e","t","h","n","i","c">>, <<"t","r","i","b","a","l">>, <<"s","o","c","i","e","t","y">>>> >>,
    <<<<"t","r","a","v","e","l">>, <<<<"t","o","u","r","i","s","m">>, <<"v","i","s","i","t">>, <<"v","a","c","a","t","i","o","n">>, <<"h","o","l","i","d","a","y">>, <<"t","r","i","p">>, <<"j","o","u","r","n","e","y">>>> >>,
    <<<<"d","e","s","e","r","t">>, <<<<"a","r","i","d">>, <<"d","r","y">>, <<"s","a","n","d">>, <<"n","a","m","i","b">>, <<"k","a","l","a","h","a","r","i">>>> >>,
    <<<<"e","l","e","p","h","a","n","t">>, <<<<"e","l","e","p","h","a","n","t","s">>, <<"p","a","c","h","y","d","e","r","m">>, <<"a","f","r","i","c","a","n"," ","e","l","e","p","h","a","n","t">>>> >>,
    <<<<"l","i","o","n">>, <<<<"l","i","o","n","s">>, <<"b","i","g"," ","c","a","t">>, <<"p","r","e","d","a","t","o","r">>, <<"k","i","n","g"," ","o","f"," ","j","u","n","g","l","e">>>> >>,
    <<<<"c","h","e","e","t","a","h">>, <<<<"c","h","e","e","t","a","h","s">>, <<"f","a","s","t","e","s","t"," ","a","n","i","m","a","l">>, <<"a","c","i","n","o","n","y","x"," ","j","u","b","a","t","u","s">>>> >>,
    <<<<"e","v","a">>, <<<<"y","o","u","r"," ","n","a","m","e">>, <<"w","h","o"," ","a","r","e"," ","y","o","u">>, <<"w","h","a","t"," ","a","r","e"," ","y","o","u"," ","c","a","l","l","e","d">>>> >>,
    <<<<"g","e","i","s","e","s">>, <<<<"l","a","s","t"," ","n","a","m","e">>, <<"s","u","r","n","a","m","e">>, <<"f","a","m","i","l","y"," ","n","a","m","e">>>> >> >>

\* expanded.append(x) if x not in expanded, for every x of xs in order
RECURSIVE AppendNew(_, _)
AppendNew(expanded, xs) ==
    IF xs = <<>> THEN expanded
    ELSE AppendNew(IF Head(xs) \in Range(expanded) THEN expanded
                   ELSE Append(expanded, Head(xs)), Tail(xs))

\* the loop over self.synonyms.items() from entry i on
RECURSIVE expand_synonyms(_, _, _)
expand_synonyms(query_lower, expanded, i) ==
    IF i > Len(synonyms) THEN expanded
    ELSE LET word == synonyms[i][1]
             syns == synonyms[i][2]
         IN  expand_synonyms(query_lower,
                 IF Contains(query_lower, word)
                 THEN AppendNew(expanded,
                          Tuple([j \in 1..Len(syns) |->
                                    Replace(query_lower, word, syns[j])], Len(syns)))
                 ELSE expanded,
                 i + 1)

\* expand_query(query)
expand_query(query) ==
    LET query_lower == Lower(query)
        personal == IF AnyIn(<<<<"y","o","u","r"," ","n","a","m","e">>, <<"w","h","o"," ","a","r","e"," ","y","o","u">>, <<"w","h","a","t"," ","a","r","e"," ","y","o","u"," ","c","a","l","l","e","d">>>>, query_lower)
                    THEN <<<<"e","v","a"," ","g","e","i","s","e","s">>, <<"m","y"," ","n","a","m","e"," ","i","s"," ","e","v","a">>, <<"i"," ","a","m"," ","e","v","a"," ","g","e","i","s","e","s">>>> ELSE <<>>
        expanded == expand_synonyms(query_lower, <<query_lower>> \o personal, 1)
        words == Split(query_lower)
    IN  IF Len(words) > 1
        THEN AppendNew(expanded, Tuple([i \in 1..Len(words) |-> Join(SubSeq(words, 1, i))],
                                       Len(words)))
        ELSE expanded

\* check_personal_questions(query): the response of the first pattern that matches
\* (its opening words), <<>> for None
check_personal_questions(query) ==
    LET q == Lower(query)
    IN  IF AnyIn(<<<<"y","o","u","r"," ","n","a","m","e">>, <<"w","h","o"," ","a","r","e"," ","y","o","u">>, <<"w","h","a","t"," ","a","r","e"," ","y","o","u"," ","c","a","l","l","e","d">>>>, q)
        THEN <<"I"," ","a","m"," ","E","v","a"," ","G","e","i","s","e","s",","," ","y","o","u","r"," ","N","a","m","i","b","i","a"," ","G","r","o","u","p"," ","S","u","p","e","r","v","i","s","o","r">>
        ELSE IF AnyIn(<<<<"w","h","a","t"," ","c","a","n"," ","y","o","u"," ","d","o">>, <<"y","o","u","r"," ","c","a","p","a","b","i","l","i","t","i","e","s">>, <<"a","b","i","l","i","t","i","e","s">>>>, q)
        THEN <<"A","s"," ","E","v","a"," ","G","e","i","s","e","s",","," ","I"," ","c","a","n">>
        ELSE IF AnyIn(<<<<"e","v","a"," ","g","e","i","s","e","s">>, <<"g","e","i","s","e","s">>>>, q)
        THEN <<"T","h","a","t"," ","i","s"," ","m","e","!"," ","E","v","a"," ","G","e","i","s","e","s">>
        ELSE IF AnyIn(<<<<"s","u","p","e","r","v","i","s","o","r">>, <<"m","a","n","a","g","e">>, <<"m","o","n","i","t","o","r">>>>, q)
        THEN <<"A","s"," ","g","r","o","u","p"," ","s","u","p","e","r","v","i","s","o","r",","," ","I"," ","m","o","n","i","t","o","r"," ","d","i","s","c","u","s","s","i","o","n","s">>
        ELSE IF AnyIn(<<<<"c","r","e","a","t","e","d"," ","y","o","u">>, <<"w","h","o"," ","m","a","d","e"," ","y","o","u">>, <<"d","e","v","e","l","o","p","e","r">>>>, q)
        THEN <<"I"," ","w","a","s"," ","d","e","v","e","l","o","p","e","d"," ","a","s"," ","a","n"," ","i","n","t","e","l","l","i","g","e","n","t"," ","N","a","m","i","b","i","a"," ","a","s","s","i","s","t","a","n","t">>
        ELSE IF AnyIn(<<<<"h","e","l","l","o"," ","e","v","a">>, <<"h","i"," ","e","v","a">>, <<"h","e","y"," ","e","v","a">>>>, q)
        THEN <<"H","e","l","l","o","!"," ","I"," ","a","m"," ","E","v","a"," ","G","e","i","s","e","s">>
        ELSE <<>>

\* str.split(',')
RECURSIVE SplitComma(_)
SplitComma(s) ==
    IF \E i \in 1..Len(s) : s[i] = ","
    THEN LET n == PrefixLen(s, {","}, FALSE)
         IN  <<SubSeq(s, 1, n)>> \o SplitComma(SubSeq(s, n + 2, Len(s)))
    ELSE <<s>>

\* set(re.findall(r'\b\w+\b', s)): the maximal runs of word characters
RECURSIVE WordSet(_)
WordSet(s) ==
    IF s = <<>> THEN {}
    ELSE IF NotWordChar(Head(s)) THEN WordSet(Tail(s))
    ELSE LET n == PrefixLen(s, WordChars, TRUE)
         IN  {SubSeq(s, 1, n)} \cup WordSet(SubSeq(s, n + 1, Len(s)))

\* result.get('keywords', '').split(',') if result.get('keywords') else []
keywords_of(result) == IF result.keywords # <<>> THEN SplitComma(result.keywords) ELSE <<>>

\* keyword_score
keyword_score(clean_query, result) ==
    LET keywords == keywords_of(result)
        query_words == WordSet(Lower(clean_query))
        keyword_set == {Strip(Lower(keywords[i])) :
                            i \in {j \in 1..Len(keywords) : Strip(keywords[j]) # <<>>}}
        common == query_words \cap keyword_set
        qn == Cardinality(query_words)
        kn == Cardinality(keyword_set)
    IN  IF keywords # <<>> /\ common # {}
        THEN <<Cardinality(common) * 100, IF qn > kn THEN qn ELSE kn>>
        ELSE Rat(0)

\* the values fuzz.partial_ratio returns for strings neither of which holds the other
FuzzValues == {40, 70, 90}

\* fuzz.partial_ratio(a, b) of rapidfuzz is 0 when a string is empty and 100 when the
\* shorter string occurs in the longer one
fuzz_is_exact(a, b) ==
    \/ a = <<>> \/ b = <<>>
    \/ (Len(a) <= Len(b) /\ Contains(b, a))
    \/ (Len(b) <= Len(a) /\ Contains(a, b))

\* and otherwise the similarity o, which the model draws from FuzzValues
partial_ratio(a, b, o) ==
    IF a = <<>> \/ b = <<>> THEN 0
    ELSE IF fuzz_is_exact(a, b) THEN 100 ELSE o

\* context_weight, in tenths; user_id 0 is None
context_weight(interests, user_id, result) ==
    IF user_id # 0 /\ user_id \in DOMAIN interests
       /\ Lower(result.category) \in DOMAIN interests[user_id]
    THEN 13 ELSE 10

\* best_score of one result of the direct search; o is the pair of similarities drawn
\* for its topic and its content
best_score_of(clean_query, interests, user_id, result, o) ==
    LET topic_match == partial_ratio(clean_query, Lower(result.topic), o[1])
        content_match == partial_ratio(clean_query, Lower(result.content), o[2])
    IN  RatMul(RatMax(RatMax(Rat(topic_match), Rat(content_match)),
                      keyword_score(clean_query, result)),
               <<context_weight(interests, user_id, result), 10>>)

item_of(result) == [category |-> result.category, question |-> result.topic,
                    answer |-> result.content, keywords |-> keywords_of(result)]
-----------------------------------------------------------------------------
(* SmartFeatures (src/smart_features.py).  Its clock values are seconds. *)

SpamWindow == 30        \* timedelta(seconds=30)
SpamLimit == 5          \* message_count > 5
SecondsPerHour == 3600  \* timedelta(hours=hours)

\* chat_key = f"{chat_id}_{user_id}", as the parts it is made of
chat_key(chat_id, user_id) == <<str(chat_id), "_", str(user_id)>>

\* d[key] of a defaultdict(list) and of a defaultdict(int)
list_at(d, key) == IF key \in DOMAIN d THEN d[key] ELSE <<>>
int_at(d, key) == IF key \in DOMAIN d THEN d[key] ELSE 0

\* d[key] = value
Assign(d, key, value) == [k \in DOMAIN d \cup {key} |-> IF k = key THEN value ELSE d[k]]

\* a check_spam that never forgets a message
check_spam_keeping_all(counts, warnings, user_id, chat_id, t) ==
    LET key == chat_key(chat_id, user_id)
        times == Append(list_at(counts, key), t)
    IN  IF Len(times) > SpamLimit
        THEN [is_spam |-> TRUE, warning_level |-> int_at(warnings, key) + 1,
              user_message_count |-> Assign(counts, key, times),
              user_warnings |-> Assign(warnings, key, int_at(warnings, key) + 1)]
        ELSE [is_spam |-> FALSE, warning_level |-> 0,
              user_message_count |-> Assign(counts, key, times),
              user_warnings |-> warnings]

\* check_spam(user_id, chat_id) at time t: the times older than the window are dropped,
\* the time of the call is appended and the length of the list compared with the limit
check_spam(counts, warnings, user_id, chat_id, t) ==
    LET key == chat_key(chat_id, user_id)
        recent == SelectSeq(list_at(counts, key), LAMBDA msg_time : t - msg_time < SpamWindow)
        times == Append(recent, t)
        message_count == Len(times)
    IN  IF message_count > SpamLimit
        THEN [is_spam |-> TRUE, warning_level |-> int_at(warnings, key) + 1,
              user_message_count |-> Assign(counts, key, times),
              user_warnings |-> Assign(warnings, key, int_at(warnings, key) + 1)]
        ELSE [is_spam |-> FALSE, warning_level |-> 0,
              user_message_count |-> Assign(counts, key, times),
              user_warnings |-> warnings]

\* a should_greet_chat that compares with >=
should_greet_chat_at_least(greeted, chat_id, hours, t) ==
    IF chat_id \notin DOMAIN greeted \/ t - greeted[chat_id] >= hours * SecondsPerHour
    THEN [result |-> TRUE, last_greeting_time |-> Assign(greeted, chat_id, t)]
    ELSE [result |-> FALSE, last_greeting_time |-> greeted]

\* should_greet_chat(chat_id, hours) at time t
should_greet_chat(greeted, chat_id, hours, t) ==
    IF chat_id \notin DOMAIN greeted \/ t - greeted[chat_id] > hours * SecondsPerHour
    THEN [result |-> TRUE, last_greeting_time |-> Assign(greeted, chat_id, t)]
    ELSE [result |-> FALSE, last_greeting_time |-> greeted]

\* SmartFeatures()
InitSmart ==
    /\ clock = 0
    /\ user_message_count = [k \in {} |-> <<>>]
    /\ user_warnings = [k \in {} |-> 0]
    /\ last_greeting_time = [c \in {} |-> 0]
    /\ spam_history = [k \in {} |-> <<>>]
    /\ greet_history = [c \in {} |-> {}]
    /\ greet_asked = {}

-----------------------------------------------------------------------------
(* KnowledgeBase of src/kb.py: the table knowledge(id, topic, content, keywords) and *)
(* its index knowledge_fts(rowid, topic, content, keywords).  A text that is not     *)
(* given is Absent, Python's None and SQL's NULL.                                    *)

Absent == <<"None">>

\* the truth value Python gives a str or None
Truthy(text) == text # Absent /\ text # <<>>

TheKb == [knowledge |-> kb_knowledge, knowledge_fts |-> kb_fts, sequence |-> kb_sequence]

\* the tables init_knowledge_base creates in a new database file
NewKb == [knowledge |-> {}, knowledge_fts |-> {}, sequence |-> 0]

\* INSERT INTO knowledge, then INSERT INTO knowledge_fts with the rowid of the new row
kb_insert(s, topic, content, keywords) ==
    LET id == s.sequence + 1
    IN  [knowledge |-> s.knowledge \cup {[id |-> id, topic |-> topic, content |-> content,
                                          keywords |-> keywords]},
         knowledge_fts |-> s.knowledge_fts \cup {[rowid |-> id, topic |-> topic,
                                                  content |-> content,
                                                  keywords |-> keywords]},
         sequence |-> id]

\* initial_data, each content by its first words and each keyword list by its first tag
initial_data == <<
    <<<<"P","y","t","h","o","n"," ","P","r","o","g","r","a","m","m","i","n","g">>, <<"P","y","t","h","o","n"," ","i","s"," ","a"," ","h","i","g","h","-","l","e","v","e","l"," ","l","a","n","g","u","a","g","e">>, <<"p","r","o","g","r","a","m","m","i","n","g">>>>,
    <<<<"M","a","c","h","i","n","e"," ","L","e","a","r","n","i","n","g">>, <<"M","a","c","h","i","n","e"," ","L","e","a","r","n","i","n","g"," ","i","s"," ","a"," ","s","u","b","s","e","t">>, <<"A","I">>>>,
    <<<<"W","e","b"," ","D","e","v","e","l","o","p","m","e","n","t">>, <<"W","e","b"," ","d","e","v","e","l","o","p","m","e","n","t"," ","i","n","v","o","l","v","e","s">>, <<"H","T","M","L">>>>,
    <<<<"D","a","t","a","b","a","s","e"," ","S","y","s","t","e","m","s">>, <<"D","a","t","a","b","a","s","e"," ","s","y","s","t","e","m","s"," ","a","r","e"," ","o","r","g","a","n","i","z","e","d">>, <<"S","Q","L">>>>,
    <<<<"A","P","I"," ","D","e","v","e","l","o","p","m","e","n","t">>, <<"A","P","I","s"," ","a","l","l","o","w">>, <<"R","E","S","T">>>>,
    <<<<"C","l","o","u","d"," ","C","o","m","p","u","t","i","n","g">>, <<"C","l","o","u","d"," ","c","o","m","p","u","t","i","n","g"," ","d","e","l","i","v","e","r","s">>, <<"A","W","S">>>>,
    <<<<"V","e","r","s","i","o","n"," ","C","o","n","t","r","o","l">>, <<"V","e","r","s","i","o","n"," ","c","o","n","t","r","o","l"," ","s","y","s","t","e","m","s"," ","t","r","a","c","k">>, <<"g","i","t">>>>,
    <<<<"C","y","b","e","r","s","e","c","u","r","i","t","y">>, <<"C","y","b","e","r","s","e","c","u","r","i","t","y"," ","p","r","o","t","e","c","t","s">>, <<"s","e","c","u","r","i","t","y">>>>,
    <<<<"M","o","b","i","l","e"," ","D","e","v","e","l","o","p","m","e","n","t">>, <<"M","o","b","i","l","e"," ","d","e","v","e","l","o","p","m","e","n","t"," ","c","r","e","a","t","e","s">>, <<"i","O","S">>>>,
    <<<<"D","e","v","O","p","s">>, <<"D","e","v","O","p","s"," ","c","o","m","b","i","n","e","s">>, <<"C","I","/","C","D">>>> >>

RECURSIVE kb_insert_all(_, _)
kb_insert_all(s, items) ==
    IF items = <<>> THEN s
    ELSE kb_insert_all(kb_insert(s, Head(items)[1], Head(items)[2], Head(items)[3]),
                       Tail(items))

\* seed_initial_data: only an empty table is seeded
seed_initial_data(s) ==
    IF Cardinality(s.knowledge) > 0 THEN s ELSE kb_insert_all(s, initial_data)

\* add_knowledge(topic, content, keywords): topic and content are NOT NULL, the
\* IntegrityError of the first INSERT leaves the tables as they were
kb_add_knowledge(s, topic, content, keywords) ==
    IF topic = Absent \/ content = Absent THEN [raised |-> TRUE, store |-> s]
    ELSE [raised |-> FALSE, store |-> kb_insert(s, topic, content, keywords)]

\* update_knowledge(knowledge_id, topic, content, keywords): the fields that are given
\* and not empty are written, then the row of the index is deleted and written again
\* from the row of the table
kb_update_knowledge(s, knowledge_id, topic, content, keywords) ==
    IF ~(Truthy(topic) \/ Truthy(content) \/ Truthy(keywords)) THEN s
    ELSE LET updated == {IF k.id # knowledge_id THEN k
                         ELSE [k EXCEPT !.topic = IF Truthy(topic) THEN topic ELSE @,
                                        !.content = IF Truthy(content) THEN content ELSE @,
                                        !.keywords = IF Truthy(keywords) THEN keywords
                                                     ELSE @] :
                            k \in s.knowledge}
         IN  [s EXCEPT !.knowledge = updated,
                       !.knowledge_fts =
                           {f \in @ : f.rowid # knowledge_id}
                           \cup {[rowid |-> k.id, topic |-> k.topic, content |-> k.content,
                                  keywords |-> k.keywords] :
                                    k \in {x \in updated : x.id = knowledge_id}}]

\* a delete_knowledge that leaves the index alone
kb_delete_knowledge_table_only(s, knowledge_id) ==
    [s EXCEPT !.knowledge = {k \in @ : k.id # knowledge_id}]

\* delete_knowledge(knowledge_id)
kb_delete_knowledge(s, knowledge_id) ==
    [s EXCEPT !.knowledge = {k \in @ : k.id # knowledge_id},
              !.knowledge_fts = {f \in @ : f.rowid # knowledge_id}]

\* KnowledgeBase() of src/kb.py on a new database file
InitKb ==
    \E s \in {seed_initial_data(NewKb)} :
        /\ kb_knowledge = s.knowledge
        /\ kb_fts = s.knowledge_fts
        /\ kb_sequence = s.sequence

-----------------------------------------------------------------------------
(* The event loop: no handle_group_message coroutine has started *)

MaxTasks == 2    \* the messages that are handled

TaskIds == 1..MaxTasks

InitLoop ==
    /\ tasks = [t \in TaskIds |-> [pc |-> "received"]]
    /\ running = 0
    /\ writer = [c \in {} |-> 0]


\* enhanced_results.sort(key=lambda x: x["score"], reverse=True): stable, descending
RECURSIVE InsertByScore(_, _)
InsertByScore(x, sorted) ==
    IF sorted = <<>> THEN <<x>>
    ELSE IF RatLe(x.score, Head(sorted).score)
         THEN <<Head(sorted)>> \o InsertByScore(x, Tail(sorted))
         ELSE <<x>> \o sorted

\* the list left in the order the layers appended to it
Unsorted(rs) == rs

RECURSIVE SortByScore(_)
SortByScore(rs) ==
    IF rs = <<>> THEN <<>>
    ELSE InsertByScore(rs[Len(rs)], SortByScore(SubSeq(rs, 1, Len(rs) - 1)))

\* a test of seen_content that never finds the content
in_seen_content_never(content, seen_content) == FALSE

\* result['content'] in seen_content
in_seen_content(content, seen_content) == content \in seen_content

\* the loop over the results of the direct search, from result i on.  acc holds
\* enhanced_results, seen_content and the best_score left by the last scored result
RECURSIVE direct_layer(_, _, _, _, _, _)
direct_layer(results, scores, clean_query, threshold, i, acc) ==
    IF i > Len(results) THEN acc
    ELSE IF in_seen_content(results[i].content, acc.seen_content)
         THEN direct_layer(results, scores, clean_query, threshold, i + 1, acc)
         ELSE direct_layer(results, scores, clean_query, threshold, i + 1,
                  IF RatLt(Rat(threshold), scores[i])
                  THEN [enhanced_results |->
                            Append(acc.enhanced_results,
                                   [item |-> item_of(results[i]), score |-> scores[i],
                                    matched_query |-> clean_query, is_personal |-> FALSE]),
                        seen_content |-> acc.seen_content \cup {results[i].content},
                        best_score |-> scores[i]]
                  ELSE [acc EXCEPT !.best_score = scores[i]])

\* the loop over the results of the search of one expanded query, from result j on
RECURSIVE synonym_results(_, _, _, _)
synonym_results(results, expanded_query, j, acc) ==
    IF j > Len(results) THEN acc
    ELSE synonym_results(results, expanded_query, j + 1,
             IF ~in_seen_content(results[j].content, acc.seen_content)
             THEN [acc EXCEPT
                     !.enhanced_results =
                         Append(@, [item |-> item_of(results[j]), score |-> Rat(85),
                                    matched_query |-> expanded_query,
                                    is_personal |-> FALSE]),
                     !.seen_content = @ \cup {results[j].content}]
             ELSE acc)

\* the loop over expanded_queries, from query i on
RECURSIVE synonym_layer(_, _, _, _, _, _, _, _)
synonym_layer(kn, fts, expanded_queries, clean_query, rank, fails, i, acc) ==
    IF i > Len(expanded_queries) THEN acc
    ELSE synonym_layer(kn, fts, expanded_queries, clean_query, rank, fails, i + 1,
             IF expanded_queries[i] # clean_query
             THEN synonym_results(kb_search(kn, fts, expanded_queries[i], 8, rank, fails),
                                  expanded_queries[i], 1, acc)
             ELSE acc)

\* the queries put to the retrieval
Queries == {<<>>, <<" ","\t"," ">>, <<"c","a","p","i","t","a","l">>, <<"w","i","n","d","h","o","e","k"," ","t","o","u","r","s">>, <<"d","e","s","e","r","t"," ","t","r","i","p">>, <<"L","i","o","n"," ">>, <<"x","y","z","a","b","c","1","2","3">>,
            <<"w","h","o"," ","a","r","e"," ","y","o","u">>, <<"b","i","g"," ","c","a","t">>, <<"p","e","o","p","l","e">>, <<"a"," ","h","i","m","b","a">>}

\* expand_query and check_personal_questions of these queries, evaluated once
ExpandedQueries == [q \in {Lower(Strip(x)) : x \in Queries} |-> expand_query(q)]
PersonalResponses ==
    [q \in {Lower(Strip(x)) : x \in Queries} |-> check_personal_questions(q)]

expanded_queries_of(q) ==
    IF q \in DOMAIN ExpandedQueries THEN ExpandedQueries[q] ELSE expand_query(q)
personal_response_of(q) ==
    IF q \in DOMAIN PersonalResponses THEN PersonalResponses[q]
    ELSE check_personal_questions(q)

\* intelligent_search(query, user_id, threshold).  rank and fails are those of
\* kb_search; fz[i] is the pair of similarities drawn for the i-th direct result
intelligent_search(kn, fts, interests, query, user_id, threshold, rank, fz, fails) ==
    LET clean_query == Lower(Strip(query))
        personal_response == personal_response_of(clean_query)
        results == kb_search(kn, fts, clean_query, 15, rank, fails)
        scores == Tuple([i \in 1..Len(results) |->
                            best_score_of(clean_query, interests, user_id, results[i],
                                          fz[i])], Len(results))
        direct == direct_layer(results, scores, clean_query, threshold, 1,
                               [enhanced_results |-> <<>>, seen_content |-> {},
                                best_score |-> Rat(0)])
        all == IF direct.enhanced_results = <<>> \/ RatLt(direct.best_score, Rat(80))
               THEN synonym_layer(kn, fts, expanded_queries_of(clean_query), clean_query,
                                  rank, fails, 1, direct)
               ELSE direct
    IN  IF query = <<>> \/ Strip(query) = <<>> THEN <<>>
        ELSE IF personal_response # <<>>
        THEN << [item |-> [category |-> <<"P","e","r","s","o","n","a","l">>, question |-> <<"A","b","o","u","t"," ","E","v","a"," ","G","e","i","s","e","s">>,
                           answer |-> personal_response,
                           keywords |-> <<<<"e","v","a">>, <<"g","e","i","s","e","s">>, <<"n","a","m","e">>, <<"s","u","p","e","r","v","i","s","o","r">>>>],
                 score |-> Rat(100), matched_query |-> clean_query,
                 is_personal |-> TRUE] >>
        ELSE Limit(SortByScore(all.enhanced_results), 7)

\* track_user_interest(user_id, category)
track_user_interest(interests, user_id, category) ==
    LET mine == IF user_id \in DOMAIN interests THEN interests[user_id]
                ELSE [c \in {} |-> 0]
    IN  [u \in DOMAIN interests \cup {user_id} |->
            IF u = user_id
            THEN [c \in DOMAIN mine \cup {category} |->
                     IF c = category
                     THEN (IF category \in DOMAIN mine THEN mine[category] + 1 ELSE 1)
                     ELSE mine[c]]
            ELSE interests[u]]

-----------------------------------------------------------------------------
(* The store and the queries of the retrieval specification *)

Corpus == {
    [id |-> 1, category |-> <<"T","o","u","r","i","s","m">>, topic |-> <<"c","a","p","i","t","a","l"," ","c","i","t","y">>,
     content |-> <<"w","i","n","d","h","o","e","k"," ","i","s"," ","t","h","e"," ","c","a","p","i","t","a","l">>, keywords |-> <<"w","i","n","d","h","o","e","k",","," ","c","a","p","i","t","a","l",","," ","c","i","t","y">>,
     source |-> "csv"],
    [id |-> 2, category |-> <<"G","e","o","g","r","a","p","h","y">>, topic |-> <<"W","i","n","d","h","o","e","k">>,
     content |-> <<"w","i","n","d","h","o","e","k"," ","i","s"," ","t","h","e"," ","c","a","p","i","t","a","l">>, keywords |-> <<>>,
     source |-> "csv"],
    [id |-> 3, category |-> <<"T","o","u","r","i","s","m">>, topic |-> <<"s","e","a","t"," ","o","f"," ","g","o","v","e","r","n","m","e","n","t">>,
     content |-> <<"t","h","e"," ","c","a","p","i","t","a","l"," ","h","o","s","t","s"," ","p","a","r","l","i","a","m","e","n","t">>, keywords |-> <<"c","a","p","i","t","a","l">>,
     source |-> "csv"],
    [id |-> 4, category |-> <<"w","i","l","d","l","i","f","e">>, topic |-> <<"l","i","o","n">>,
     content |-> <<"d","e","s","e","r","t"," ","l","i","o","n","s"," ","r","o","a","m">>, keywords |-> <<"l","i","o","n",","," ","d","e","s","e","r","t">>,
     source |-> "manual"],
    [id |-> 5, category |-> <<"C","u","l","t","u","r","e">>, topic |-> <<"h","i","m","b","a">>,
     content |-> <<"h","i","m","b","a"," ","p","e","o","p","l","e">>, keywords |-> <<"h","i","m","b","a">>,
     source |-> "csv"],
    [id |-> 6, category |-> <<"C","u","l","t","u","r","e">>, topic |-> <<"h","e","r","e","r","o">>,
     content |-> <<"h","e","r","e","r","o"," ","p","e","o","p","l","e">>, keywords |-> <<"h","e","r","e","r","o">>,
     source |-> "csv"],
    [id |-> 7, category |-> <<"W","i","l","d","l","i","f","e">>, topic |-> <<"c","h","e","e","t","a","h">>,
     content |-> <<"f","a","s","t"," ","c","a","t","s">>, keywords |-> <<"c","h","e","e","t","a","h">>,
     source |-> "csv"],
    [id |-> 8, category |-> <<"C","u","l","t","u","r","e">>, topic |-> <<"s","a","n"," ","p","e","o","p","l","e">>,
     content |-> <<"t","h","e"," ","s","a","n"," ","p","e","o","p","l","e">>, keywords |-> <<"s","a","n">>,
     source |-> "csv"],
    [id |-> 9, category |-> <<"C","u","l","t","u","r","e">>, topic |-> <<"n","a","m","a"," ","p","e","o","p","l","e">>,
     content |-> <<"t","h","e"," ","n","a","m","a"," ","p","e","o","p","l","e">>, keywords |-> <<"n","a","m","a">>,
     source |-> "csv"] }

Thresholds == {0, 60, 90}

\* user_id of a search: 0 is None
SearchUsers == {0, 1}

\* all orders of a set of ids
Perms(S) ==
    {p \in [1..Cardinality(S) -> S] : \A i, j \in 1..Cardinality(S) : p[i] = p[j] => i = j}

\* the ids of S, ascending
RECURSIVE Ascending(_)
Ascending(S) ==
    IF S = {} THEN <<>>
    ELSE LET m == CHOOSE x \in S : \A y \in S : x <= y
         IN  <<m>> \o Ascending(S \ {m})

\* the rows a search of query or of one of its expansions can return
reachable_ids(kn, fts, query) ==
    LET clean_query == Lower(Strip(query))
        qs == IF clean_query = <<>> THEN {} ELSE Range(expanded_queries_of(clean_query))
    IN  UNION {IF fts_ids(kn, fts, Strip(q)) # {} THEN fts_ids(kn, fts, Strip(q))
               ELSE like_ids(kn, Strip(q)) :
                  q \in {x \in qs : search_terms_of(Strip(x)) # <<>>}}

\* the orders of the rows of the store that differ on the rows a search can return
Ranks(kn, fts, query) ==
    LET ids == reachable_ids(kn, fts, query)
        rest == Ascending({k.id : k \in kn} \ ids)
    IN  {p \o rest : p \in Perms(ids)}

\* the sequences that take their i-th element from the i-th set
RECURSIVE Product(_)
Product(sets) ==
    IF sets = <<>> THEN {<<>>}
    ELSE {<<h>> \o t : h \in Head(sets), t \in Product(Tail(sets))}

\* the similarities partial_ratio can return for the direct results of a query: a
\* pair (topic, content) for each, 100 where the strings decide it
Similarities(results, clean_query) ==
    Product(Tuple([i \in 1..Len(results) |->
        (IF fuzz_is_exact(clean_query, Lower(results[i].topic)) THEN {100} ELSE FuzzValues)
        \X (IF fuzz_is_exact(clean_query, Lower(results[i].content)) THEN {100}
            ELSE FuzzValues)], Len(results)))

-----------------------------------------------------------------------------
(* The calls *)

Idle == [op |-> "idle"]

\* the clock advances
Tick ==
    /\ out = Idle
    /\ now + TickMinutes <= MaxTime
    /\ now' = now + TickMinutes
    /\ UNCHANGED <<last_activity, query_logs, knowledge, knowledge_fts, sqlite_sequence, last_sync, user_interests, out, smart, kb, loop>>

\* analyze_message(message, user_id, chat_id): the activity of the chat is recorded,
\* then decide_response runs.  update_group_analytics writes group_analytics only, which
\* the decision never reads
AnalyzeMessage ==
    /\ out = Idle
    /\ \E message \in Messages, user_id \in Users, chat_id \in Chats, drift \in 0..MaxDrift :
         LET message_lower == Normalize(message)
             la == record_activity(last_activity, chat_id, now)
             t  == now + drift
         IN  \E coin \in (IF is_chat_quiet(la, chat_id, t, QuietMinutes) THEN Draws ELSE {0}) :
               LET drawn == TextTypes[message_lower]
                              \o quiet_response_types(TRUE, la, chat_id, t, coin) # <<>>
               IN  \E r \in (IF drawn THEN Draws ELSE {0}),
                      dbFails \in (IF drawn THEN BOOLEAN ELSE {FALSE}) :
                     LET d == decide_response(message_lower, user_id, chat_id, la, t,
                                              coin, r, dbFails)
                     IN  /\ last_activity' = la
                         /\ out' = [op |-> "analyze_message", message |-> message,
                                    user_id |-> user_id, chat_id |-> chat_id,
                                    before |-> IF str(chat_id) \in DOMAIN last_activity
                                               THEN last_activity[str(chat_id)] ELSE -1,
                                    at |-> now, r |-> r,
                                    candidates |-> d.candidates, respond |-> d.respond,
                                    category |-> d.category, raised |-> d.raised]
    /\ UNCHANGED <<now, query_logs, knowledge, knowledge_fts, sqlite_sequence, last_sync, user_interests, smart, kb, loop>>

\* kb_db.search(query, limit) on a store ensure_data leaves as it is
KbSearch ==
    /\ out = Idle
    /\ store_is_seeded(knowledge)
    /\ \E query \in Queries, fails \in BOOLEAN :
         \E rank \in (IF fails THEN {Ascending({k.id : k \in knowledge})}
                      ELSE Ranks(knowledge, knowledge_fts, query)),
            limit \in {1, 8, 15} :
            out' = [op |-> "kb_search", query |-> query, limit |-> limit,
                    results |-> kb_search(knowledge, knowledge_fts, query, limit, rank, fails)]
    /\ UNCHANGED <<now, last_activity, query_logs, knowledge, knowledge_fts, sqlite_sequence, last_sync, user_interests, smart, kb, loop>>

\* intelligent_search(query, user_id, threshold) on a store ensure_data leaves as it is
IntelligentSearch ==
    /\ out = Idle
    /\ store_is_seeded(knowledge)
    /\ \E query \in Queries, fails \in BOOLEAN :
         \E rank \in (IF fails THEN {Ascending({k.id : k \in knowledge})}
                      ELSE Ranks(knowledge, knowledge_fts, query)) :
            LET found == kb_search(knowledge, knowledge_fts, Lower(Strip(query)), 15,
                                   rank, fails)
            IN  \E fz \in Similarities(found, Lower(Strip(query))),
                   user_id \in SearchUsers, threshold \in Thresholds :
                  out' = [op |-> "intelligent_search", query |-> query,
                          user_id |-> user_id, threshold |-> threshold,
                          fails |-> fails,
                          results |-> intelligent_search(knowledge, knowledge_fts,
                                          user_interests, query, user_id, threshold,
                                          rank, fz, fails)]
    /\ UNCHANGED <<now, last_activity, query_logs, knowledge, knowledge_fts, sqlite_sequence, last_sync, user_interests, smart, kb, loop>>

\* the number of calls of track_user_interest so far
Tracked ==
    LET RECURSIVE Sum(_, _)
        Sum(f, S) == IF S = {} THEN 0
                     ELSE LET x == CHOOSE y \in S : TRUE IN f[x] + Sum(f, S \ {x})
        PerUser == [u \in DOMAIN user_interests |->
                       Sum(user_interests[u], DOMAIN user_interests[u])]
    IN  Sum(PerUser, DOMAIN PerUser)

\* generate_response after a search that returned results: the interest of the user
\* in the category of the best result is tracked
TrackUserInterest ==
    /\ out.op = "intelligent_search"
    /\ out.results # <<>>
    /\ out.user_id # 0
    /\ ~out.results[1].is_personal
    /\ Tracked < MaxTracked
    /\ user_interests' = track_user_interest(user_interests, out.user_id,
                                             out.results[1].item.category)
    /\ out' = Idle
    /\ UNCHANGED <<now, last_activity, query_logs, knowledge, knowledge_fts, sqlite_sequence, last_sync, smart, kb, loop>>

\* the call returns to its caller
Return ==
    /\ out # Idle
    /\ out' = Idle
    /\ UNCHANGED <<now, last_activity, query_logs, knowledge, knowledge_fts, sqlite_sequence, last_sync, user_interests, smart, kb, loop>>

Init ==
    /\ now = 0
    /\ last_activity = [k \in {} |-> 0]
    /\ query_logs = [u \in Users |-> CASE u = 1 -> 0 [] u = 2 -> 4 [] u = 3 -> 11]
    /\ knowledge = Corpus
    /\ knowledge_fts = {fts_row(k) : k \in Corpus}
    /\ sqlite_sequence = Cardinality(Corpus)
    /\ last_sync = 0
    /\ user_interests = [u \in {} |-> 0]
    /\ InitSmart
    /\ InitKb
    /\ InitLoop
    /\ out = Idle

\* the response decision
Next == Tick \/ AnalyzeMessage \/ Return

Spec == Init /\ [][Next]_vars

\* the retrieval
NextSearch == KbSearch \/ IntelligentSearch \/ TrackUserInterest \/ Return

SpecSearch == Init /\ [][NextSearch]_vars

-----------------------------------------------------------------------------
(* The reply: generate_response *)

MaxLogged == 6      \* queries are logged while the user has fewer than this many

\* re.sub(r'@[^\s]*', '', s): every '@' goes with the non-space characters after it
RECURSIVE strip_mentions(_)
strip_mentions(s) ==
    IF s = <<>> THEN <<>>
    ELSE IF Head(s) = "@"
         THEN LET n == PrefixLen(Tail(s), {" ", "\t"}, FALSE)
              IN  strip_mentions(SubSeq(s, n + 2, Len(s)))
         ELSE <<Head(s)>> \o strip_mentions(Tail(s))

\* the length of the match of (hey|hello)\s+(bot|namibia|eva) at the start of s, 0
\* where there is none
salutation_len(s) ==
    LET first == IF StartsWith(s, <<"h","e","y">>) THEN 3
                 ELSE IF StartsWith(s, <<"h","e","l","l","o">>) THEN 5 ELSE 0
        rest == SubSeq(s, first + 1, Len(s))
        gap == PrefixLen(rest, {" ", "\t"}, TRUE)
        name == SubSeq(rest, gap + 1, Len(rest))
        last == IF StartsWith(name, <<"b","o","t">>) THEN 3
                ELSE IF StartsWith(name, <<"n","a","m","i","b","i","a">>) THEN 7
                ELSE IF StartsWith(name, <<"e","v","a">>) THEN 3 ELSE 0
    IN  IF first = 0 \/ gap = 0 \/ last = 0 THEN 0 ELSE first + gap + last

\* re.sub(r'(hey|hello)\s+(bot|namibia|eva)', '', s)
RECURSIVE strip_salutations(_)
strip_salutations(s) ==
    IF s = <<>> THEN <<>>
    ELSE LET n == salutation_len(s)
         IN  IF n > 0 THEN strip_salutations(SubSeq(s, n + 1, Len(s)))
             ELSE <<Head(s)>> \o strip_salutations(Tail(s))

\* clean_message of generate_response
clean_message(message_lower) == Strip(strip_salutations(strip_mentions(message_lower)))

\* the categories decide_response returns with True
ResponseTypes ==
    {"personal_id", "direct_mention", "greeting", "question", "namibia_mention",
     "specific_topic", "travel", "supervision", "conversation_starter"}

\* a table of canned replies that lacks the conversation starter
responses_without_starter ==
    {"direct_mention", "greeting", "question", "namibia_mention", "specific_topic",
     "travel", "supervision"}

\* the keys of the dictionary responses of generate_response
responses ==
    {"direct_mention", "greeting", "question", "namibia_mention", "specific_topic",
     "travel", "supervision", "conversation_starter"}

\* handle_personal_identification(message): the text is abbreviated to its subject
handle_personal_identification(message) ==
    IF Contains(message, <<"s","u","p","e","r","v","i","s","o","r">>) \/ Contains(message, <<"m","a","n","a","g","e">>)
    THEN <<"A","s"," ","G","r","o","u","p"," ","S","u","p","e","r","v","i","s","o","r"," ","E","v","a"," ","G","e","i","s","e","s",","," ","I",":">>
    ELSE IF Contains(message, <<"c","a","p","a","b","i","l","i","t","i","e","s">>) \/ Contains(message, <<"w","h","a","t"," ","c","a","n"," ","y","o","u"," ","d","o">>)
    THEN <<"M","y"," ","c","a","p","a","b","i","l","i","t","i","e","s"," ","a","s"," ","E","v","a"," ","G","e","i","s","e","s",":">>
    ELSE <<"I","'","m"," ","E","v","a"," ","G","e","i","s","e","s",","," ","y","o","u","r"," ","N","a","m","i","b","i","a"," ","G","r","o","u","p"," ","S","u","p","e","r","v","i","s","o","r","!">>

\* format_knowledge_response(result, response_type): the reply shows the question and
\* the answer of the item, after a heading made of the category or the personal mark
format_knowledge_response(result, response_type) ==
    [kind |-> "knowledge",
     heading |-> IF result.is_personal THEN "personal" ELSE response_type,
     question |-> result.item.question, answer |-> result.item.answer,
     note |-> response_type = "supervision"]

\* get_greeting_responses(user_id): a user with more than 5 queries is welcomed back
get_greeting_responses(logs, user_id) ==
    IF user_id # 0 /\ logs[user_id] > 5 THEN "welcome_back" ELSE "greeting"

\* the canned reply of a category; the lists of texts the code draws from hold
\* non-empty texts only, which the name of the list stands for
canned_response(logs, response_type, user_id) ==
    [kind |-> "canned",
     text |-> IF response_type = "greeting" THEN get_greeting_responses(logs, user_id)
              ELSE response_type]

None == [kind |-> "None"]

\* generate_response(message, response_type, user_id, chat_id): the reply and the
\* writes of the call.  user_id 0 is None; dbFails: the user database raises, and the
\* exception leaves the call; found is the list intelligent_search(clean_message,
\* user_id) returns in this call.  The suggestions appended to a reply only extend its
\* text and are left out
generate_response(message_lower, response_type, user_id, found, dbFails) ==
    LET clean == clean_message(message_lower)
        logged == IF user_id # 0 /\ clean # <<>>
                  THEN [query_logs EXCEPT ![user_id] = @ + 1] ELSE query_logs
        quiet == [query_logs |-> logged, user_interests |-> user_interests,
                  searched |-> FALSE, results |-> <<>>, tracked |-> FALSE,
                  raised |-> FALSE, reply |-> None]
        fallback == IF user_id # 0 /\ dbFails THEN [quiet EXCEPT !.raised = TRUE]
                    ELSE IF response_type \in responses
                    THEN [quiet EXCEPT !.reply = canned_response(logged, response_type,
                                                                 user_id)]
                    ELSE quiet
    IN  IF user_id # 0 /\ clean # <<>> /\ dbFails
        THEN [quiet EXCEPT !.query_logs = query_logs, !.raised = TRUE]
        ELSE IF response_type = "personal_id"
        THEN [quiet EXCEPT !.reply = [kind |-> "personal_id",
                                      text |-> handle_personal_identification(message_lower)]]
        ELSE IF clean # <<>> /\ should_search(response_type)
        THEN LET results == found
                 tracks == user_id # 0 /\ ~results[1].is_personal
             IN  IF results # <<>>
                 THEN [quiet EXCEPT
                         !.searched = TRUE, !.results = results, !.tracked = tracks,
                         !.user_interests =
                             IF tracks
                             THEN track_user_interest(user_interests, user_id,
                                                      results[1].item.category)
                             ELSE user_interests,
                         !.reply = format_knowledge_response(results[1], response_type)]
                 ELSE [fallback EXCEPT !.searched = TRUE]
        ELSE fallback

\* the messages and the users of the reply specification
ReplyMessages == {<<>>, <<"@","n","a","m","i","b","i","a","b","o","t">>, <<"H","e","y"," "," ","E","v","a"," ","w","i","n","d","h","o","e","k"," ","t","o","u","r","s">>, <<"@","e","v","a","_","b","o","t"," ","L","i","o","n"," ">>, <<"d","e","s","e","r","t"," ","t","r","i","p">>,
                  <<"x","y","z","a","b","c","1","2","3">>, <<"w","h","o"," ","a","r","e"," ","y","o","u">>}
ReplyUsers == {0, 2}

\* generate_response(message, response_type, user_id, chat_id) on a store ensure_data
\* leaves as it is, with the default threshold of intelligent_search
GenerateResponse ==
    /\ out = Idle
    /\ store_is_seeded(knowledge)
    /\ \E message \in ReplyMessages, user_id \in ReplyUsers :
         \E clean \in {clean_message(Normalize(message))} :
           /\ (user_id # 0 /\ clean # <<>>) => query_logs[user_id] < MaxLogged
           /\ \E fails \in (IF clean # <<>> THEN BOOLEAN ELSE {FALSE}) :
                \E rank \in (IF clean # <<>> /\ ~fails
                             THEN Ranks(knowledge, knowledge_fts, clean)
                             ELSE {Ascending({k.id : k \in knowledge})}) :
                  \E fz \in Similarities(kb_search(knowledge, knowledge_fts, clean, 15,
                                                   rank, fails), clean) :
                    \E found \in {intelligent_search(knowledge, knowledge_fts,
                                       user_interests, clean, user_id, 60, rank, fz, fails)} :
                      \E response_type \in ResponseTypes,
                         dbFails \in (IF user_id # 0 THEN BOOLEAN ELSE {FALSE}) :
                        \E g \in {generate_response(Normalize(message), response_type,
                                                    user_id, found, dbFails)} :
                          /\ g.tracked => Tracked < MaxTracked
                          /\ query_logs' = g.query_logs
                          /\ user_interests' = g.user_interests
                          /\ out' = [op |-> "generate_response",
                                     message |-> message,
                                     response_type |-> response_type,
                                     user_id |-> user_id,
                                     clean_message |-> clean,
                                     searched |-> g.searched,
                                     results |-> g.results,
                                     reply |-> g.reply, raised |-> g.raised]
    /\ UNCHANGED <<now, last_activity, knowledge, knowledge_fts, sqlite_sequence, last_sync, smart, kb, loop>>

\* the reply
NextReply == GenerateResponse \/ Return

SpecReply == Init /\ [][NextReply]_vars

-----------------------------------------------------------------------------
(* The maintenance of the store: KnowledgeBase (src/knowledge_base.py) *)

MaxId == 20         \* rows are added while the ids given out stay below this
MaxStale == 2       \* and while fewer index rows than this have lost their entry

\* last_sync = 0 of the constructor: a time no clock reading is near
Never == -1

\* sync_interval, in minutes
sync_interval == 10

\* the tables and the fields of KnowledgeBase a call reads and writes
TheStore ==
    [knowledge |-> knowledge, knowledge_fts |-> knowledge_fts,
     sqlite_sequence |-> sqlite_sequence, last_sync |-> last_sync]

\* the tables init_knowledge_base creates in a new database file
Fresh ==
    [knowledge |-> {}, knowledge_fts |-> {}, sqlite_sequence |-> 0, last_sync |-> Never]

Item(category, topic, content, keywords) ==
    [category |-> category, topic |-> topic, content |-> content, keywords |-> keywords]

\* UNIQUE(topic, category): the rows an insertion of the pair conflicts with
conflicts(kn, item) == {k \in kn : k.topic = item.topic /\ k.category = item.category}

\* the row an insertion writes: AUTOINCREMENT gives it the id after the largest given
new_row(s, item, source) ==
    [id |-> s.sqlite_sequence + 1, category |-> item.category, topic |-> item.topic,
     content |-> item.content, keywords |-> item.keywords, source |-> source]

\* INSERT OR IGNORE INTO knowledge, and, where a row was inserted (rowcount > 0),
\* INSERT INTO knowledge_fts with its id
insert_or_ignore(s, item, source) ==
    IF conflicts(s.knowledge, item) # {} THEN s
    ELSE [s EXCEPT !.knowledge = @ \cup {new_row(s, item, source)},
                   !.knowledge_fts = @ \cup {fts_row(new_row(s, item, source))},
                   !.sqlite_sequence = @ + 1]

RECURSIVE insert_all(_, _, _)
insert_all(s, items, source) ==
    IF items = <<>> THEN s
    ELSE insert_all(insert_or_ignore(s, Head(items), source), Tail(items), source)

\* an insertion that leaves the rows it conflicts with in the table
insert_keeping_old(s, item, source) ==
    [s EXCEPT !.knowledge = @ \cup {new_row(s, item, source)},
              !.knowledge_fts = {f \in @ : f.rowid # s.sqlite_sequence + 1}
                                   \cup {fts_row(new_row(s, item, source))},
              !.sqlite_sequence = @ + 1]

\* INSERT OR REPLACE INTO knowledge, which deletes the rows the new one conflicts
\* with, and INSERT OR REPLACE INTO knowledge_fts with the id of the new row
insert_or_replace(s, item, source) ==
    [s EXCEPT !.knowledge = (@ \ conflicts(@, item)) \cup {new_row(s, item, source)},
              !.knowledge_fts = {f \in @ : f.rowid # s.sqlite_sequence + 1}
                                   \cup {fts_row(new_row(s, item, source))},
              !.sqlite_sequence = @ + 1]

\* fallback_data of seed_fallback_data; contents and keywords are abbreviated to
\* their first word
fallback_data == <<
    Item(<<"G","e","n","e","r","a","l">>, <<"W","e","l","c","o","m","e"," ","t","o"," ","N","a","m","i","b","i","a">>, <<"N","a","m","i","b","i","a">>, <<"n","a","m","i","b","i","a">>),
    Item(<<"T","o","u","r","i","s","m">>, <<"E","t","o","s","h","a"," ","N","a","t","i","o","n","a","l"," ","P","a","r","k">>, <<"E","t","o","s","h","a">>, <<"e","t","o","s","h","a">>),
    Item(<<"T","o","u","r","i","s","m">>, <<"S","o","s","s","u","s","v","l","e","i">>, <<"S","o","s","s","u","s","v","l","e","i">>, <<"s","o","s","s","u","s","v","l","e","i">>),
    Item(<<"C","u","l","t","u","r","e">>, <<"H","i","m","b","a"," ","P","e","o","p","l","e">>, <<"T","h","e">>, <<"h","i","m","b","a">>) >>

\* namibia_data of seed_namibia_tourism_data; contents and keywords are abbreviated to
\* their first word
namibia_data == <<
    Item(<<"T","o","u","r","i","s","m">>, <<"W","h","e","r","e"," ","i","s"," ","N","a","m","i","b","i","a">>, <<"N","a","m","i","b","i","a">>, <<"l","o","c","a","t","i","o","n">>),
    Item(<<"T","o","u","r","i","s","m">>, <<"C","a","p","i","t","a","l"," ","o","f"," ","N","a","m","i","b","i","a">>, <<"T","h","e">>, <<"w","i","n","d","h","o","e","k">>),
    Item(<<"T","o","u","r","i","s","m">>, <<"B","e","s","t"," ","t","i","m","e"," ","t","o"," ","v","i","s","i","t"," ","N","a","m","i","b","i","a">>, <<"T","h","e">>, <<"v","i","s","i","t">>),
    Item(<<"T","o","u","r","i","s","m">>, <<"E","t","o","s","h","a"," ","N","a","t","i","o","n","a","l"," ","P","a","r","k">>, <<"E","t","o","s","h","a">>, <<"e","t","o","s","h","a">>),
    Item(<<"T","o","u","r","i","s","m">>, <<"S","o","s","s","u","s","v","l","e","i">>, <<"S","o","s","s","u","s","v","l","e","i">>, <<"s","o","s","s","u","s","v","l","e","i">>),
    Item(<<"T","o","u","r","i","s","m">>, <<"S","w","a","k","o","p","m","u","n","d">>, <<"S","w","a","k","o","p","m","u","n","d">>, <<"s","w","a","k","o","p","m","u","n","d">>),
    Item(<<"C","u","l","t","u","r","e">>, <<"H","i","m","b","a"," ","P","e","o","p","l","e">>, <<"T","h","e">>, <<"h","i","m","b","a">>),
    Item(<<"C","u","l","t","u","r","e">>, <<"H","e","r","e","r","o"," ","P","e","o","p","l","e">>, <<"T","h","e">>, <<"h","e","r","e","r","o">>),
    Item(<<"W","i","l","d","l","i","f","e">>, <<"D","e","s","e","r","t"," ","A","d","a","p","t","e","d"," ","E","l","e","p","h","a","n","t","s">>, <<"T","h","e","s","e">>, <<"e","l","e","p","h","a","n","t">>),
    Item(<<"W","i","l","d","l","i","f","e">>, <<"N","a","m","i","b"," ","D","e","s","e","r","t"," ","L","i","o","n","s">>, <<"D","e","s","e","r","t","-","a","d","a","p","t","e","d">>, <<"l","i","o","n">>),
    Item(<<"W","i","l","d","l","i","f","e">>, <<"C","h","e","e","t","a","h","s">>, <<"N","a","m","i","b","i","a">>, <<"c","h","e","e","t","a","h">>),
    Item(<<"G","e","o","g","r","a","p","h","y">>, <<"N","a","m","i","b"," ","D","e","s","e","r","t">>, <<"T","h","e">>, <<"d","e","s","e","r","t">>),
    Item(<<"G","e","o","g","r","a","p","h","y">>, <<"F","i","s","h"," ","R","i","v","e","r"," ","C","a","n","y","o","n">>, <<"F","i","s","h">>, <<"c","a","n","y","o","n">>),
    Item(<<"P","r","a","c","t","i","c","a","l">>, <<"V","i","s","a"," ","R","e","q","u","i","r","e","m","e","n","t","s">>, <<"M","o","s","t">>, <<"v","i","s","a">>),
    Item(<<"P","r","a","c","t","i","c","a","l">>, <<"C","u","r","r","e","n","c","y">>, <<"N","a","m","i","b","i","a">>, <<"m","o","n","e","y">>),
    Item(<<"F","a","c","t","s">>, <<"O","l","d","e","s","t"," ","D","e","s","e","r","t">>, <<"T","h","e">>, <<"d","e","s","e","r","t">>),
    Item(<<"F","a","c","t","s">>, <<"P","o","p","u","l","a","t","i","o","n"," ","D","e","n","s","i","t","y">>, <<"N","a","m","i","b","i","a">>, <<"p","o","p","u","l","a","t","i","o","n">>) >>

\* seed_fallback_data that writes nothing
seed_fallback_data_skipped(s) == s

\* seed_fallback_data: only an empty table is seeded
seed_fallback_data(s) ==
    IF Cardinality(s.knowledge) > 0 THEN s ELSE insert_all(s, fallback_data, "fallback")

\* seed_namibia_tourism_data: nothing is added to a table that holds more than 5 rows
\* of the tourism categories
seed_namibia_tourism_data(s) ==
    IF Cardinality({k \in s.knowledge : k.category \in TourismCategories}) > 5 THEN s
    ELSE insert_all(s, namibia_data, "tourism")

\* the items of csv_data update_database inserts: those of no manual pair
RECURSIVE not_manual(_, _)
not_manual(csv_data, manual_entries) ==
    IF csv_data = <<>> THEN <<>>
    ELSE (IF <<Head(csv_data).topic, Head(csv_data).category>> \in manual_entries
          THEN <<>> ELSE <<Head(csv_data)>>) \o not_manual(Tail(csv_data), manual_entries)

\* update_database without the transaction: the failure leaves the deletion in place
update_database_committing(s, csv_data, raises) ==
    LET kept == {k \in s.knowledge : k.source # "csv"}
    IN  IF raises THEN [ok |-> FALSE, store |-> [s EXCEPT !.knowledge = kept]]
        ELSE [ok |-> TRUE,
              store |-> insert_all([s EXCEPT !.knowledge = kept], csv_data, "csv")]

\* update_database that replaces the rows of the pairs of the file, whatever their source
update_database_replacing(s, csv_data, raises) ==
    LET pairs == {<<csv_data[i].topic, csv_data[i].category>> : i \in 1..Len(csv_data)}
        kept == {k \in s.knowledge : k.source # "csv" /\ <<k.topic, k.category>> \notin pairs}
    IN  IF raises THEN [ok |-> FALSE, store |-> s]
        ELSE [ok |-> TRUE,
              store |-> insert_all([s EXCEPT !.knowledge = kept], csv_data, "csv")]

\* update_database(csv_data): the rows of source 'csv' are deleted from knowledge, the
\* DELETE on knowledge_fts then selects the ids of the csv rows that are left, and the
\* items are inserted; raises: the transaction fails and is rolled back
update_database(s, csv_data, raises) ==
    LET manual_entries == {<<k.topic, k.category>> :
                              k \in {x \in s.knowledge : x.source = "manual"}}
        kept == {k \in s.knowledge : k.source # "csv"}
        gone == {k.id : k \in {x \in kept : x.source = "csv"}}
        swept == [s EXCEPT !.knowledge = kept,
                           !.knowledge_fts = {f \in @ : f.rowid \notin gone}]
    IN  IF raises THEN [ok |-> FALSE, store |-> s]
        ELSE [ok |-> TRUE,
              store |-> insert_all(swept, not_manual(csv_data, manual_entries), "csv")]

\* what the request for the CSV file yields: a RequestException, or the items read
\* from the file
Fetched(raised, csv_data) == [raised |-> raised, csv_data |-> csv_data]

\* sync_with_csv() at time t
sync_with_csv(s, t, fetched, raises) ==
    IF has_data(s.knowledge) /\ s.last_sync # Never /\ t - s.last_sync < sync_interval
    THEN [ok |-> TRUE, store |-> s]
    ELSE IF fetched.raised \/ fetched.csv_data = <<>>
    THEN [ok |-> FALSE,
          store |-> IF ~has_data(s.knowledge) THEN seed_fallback_data(s) ELSE s]
    ELSE LET updated == update_database(s, fetched.csv_data, raises)
         IN  IF updated.ok
             THEN [ok |-> TRUE,
                   store |-> seed_namibia_tourism_data(
                                 [updated.store EXCEPT !.last_sync = t])]
             ELSE [ok |-> FALSE,
                   store |-> IF ~has_data(updated.store.knowledge)
                             THEN seed_fallback_data(updated.store)
                             ELSE updated.store]

\* ensure_data() at time t
ensure_data(s, t, fetched, raises) ==
    IF ~has_data(s.knowledge)
    THEN LET synced == sync_with_csv(s, t, fetched, raises)
         IN  IF ~synced.ok THEN seed_fallback_data(synced.store) ELSE synced.store
    ELSE seed_namibia_tourism_data(s)

\* add_knowledge(topic, content, category, keywords); raises: the transaction fails
\* and is rolled back
add_knowledge(s, item, raises) ==
    IF raises THEN [ok |-> FALSE, store |-> s]
    ELSE [ok |-> TRUE, store |-> insert_or_replace(s, item, "manual")]

\* the files the CSV address may serve, as the items read from them
Feeds == {
    Fetched(TRUE, <<>>),
    Fetched(FALSE, <<>>),
    Fetched(FALSE, <<Item(<<"w","i","l","d","l","i","f","e">>, <<"l","i","o","n">>, <<"d","e","s","e","r","t"," ","l","i","o","n","s"," ","r","o","a","m">>, <<"l","i","o","n",","," ","d","e","s","e","r","t">>)>>),
    Fetched(FALSE, <<Item(<<"w","i","l","d","l","i","f","e">>, <<"l","i","o","n">>, <<"l","i","o","n","s"," ","h","u","n","t"," ","a","t"," ","n","i","g","h","t">>, <<"l","i","o","n">>),
                     Item(<<"T","o","u","r","i","s","m">>, <<"S","o","s","s","u","s","v","l","e","i">>, <<"r","e","d"," ","d","u","n","e","s">>, <<"d","u","n","e","s">>),
                     Item(<<"w","i","l","d","l","i","f","e">>, <<"l","i","o","n">>, <<"l","i","o","n","s"," ","s","l","e","e","p">>, <<"l","i","o","n">>)>>) }

\* the entries an admin adds
Additions == {
    Item(<<"w","i","l","d","l","i","f","e">>, <<"l","i","o","n">>, <<"d","e","s","e","r","t"," ","l","i","o","n","s"," ","r","o","a","m">>, <<"l","i","o","n",","," ","d","e","s","e","r","t">>),
    Item(<<"w","i","l","d","l","i","f","e">>, <<"l","i","o","n">>, <<"l","i","o","n","s"," ","l","i","v","e"," ","i","n"," ","p","r","i","d","e","s">>, <<"l","i","o","n">>) }

\* the rows of the index whose entry is no longer in the table
Stale == {f \in knowledge_fts : \A k \in knowledge : k.id # f.rowid}

\* the store may still grow
MayGrow == sqlite_sequence < MaxId /\ Cardinality(Stale) < MaxStale

\* the tables and fields become those of s
Becomes(s) ==
    /\ knowledge' = s.knowledge
    /\ knowledge_fts' = s.knowledge_fts
    /\ sqlite_sequence' = s.sqlite_sequence
    /\ last_sync' = s.last_sync

\* sync_with_csv()
SyncWithCsv ==
    /\ out = Idle
    /\ MayGrow
    /\ \E fetched \in Feeds, raises \in BOOLEAN :
         \E r \in {sync_with_csv(TheStore, now, fetched, raises)} :
           /\ Becomes(r.store)
           /\ out' = [op |-> "sync_with_csv", ok |-> r.ok, fetched |-> fetched,
                      raises |-> raises, before |-> last_sync]
    /\ UNCHANGED <<now, last_activity, query_logs, user_interests, smart, kb, loop>>

\* ensure_data(), which search and the other readers call first
EnsureData ==
    /\ out = Idle
    /\ MayGrow
    /\ \E fetched \in Feeds, raises \in BOOLEAN :
         \E s \in {ensure_data(TheStore, now, fetched, raises)} :
           /\ Becomes(s)
           /\ out' = [op |-> "ensure_data"]
    /\ UNCHANGED <<now, last_activity, query_logs, user_interests, smart, kb, loop>>

\* add_knowledge(topic, content, category, keywords) of the admin command
AddKnowledge ==
    /\ out = Idle
    /\ MayGrow
    /\ \E item \in Additions, raises \in BOOLEAN :
         \E r \in {add_knowledge(TheStore, item, raises)} :
           /\ Becomes(r.store)
           /\ out' = [op |-> "add_knowledge", item |-> item, ok |-> r.ok,
                      replaced |-> conflicts(knowledge, item)]
    /\ UNCHANGED <<now, last_activity, query_logs, user_interests, smart, kb, loop>>

\* the store after KnowledgeBase() on a new database file: the tables are created and
\* sync_with_csv runs once
InitStore ==
    /\ now = 0
    /\ last_activity = [k \in {} |-> 0]
    /\ query_logs = [u \in Users |-> 0]
    /\ user_interests = [u \in {} |-> 0]
    /\ InitSmart
    /\ InitKb
    /\ InitLoop
    /\ out = Idle
    /\ \E fetched \in Feeds, raises \in BOOLEAN :
         \E r \in {sync_with_csv(Fresh, 0, fetched, raises)} :
           /\ knowledge = r.store.knowledge
           /\ knowledge_fts = r.store.knowledge_fts
           /\ sqlite_sequence = r.store.sqlite_sequence
           /\ last_sync = r.store.last_sync

\* the maintenance of the store
NextStore == Tick \/ SyncWithCsv \/ EnsureData \/ AddKnowledge \/ Return

SpecStore == InitStore /\ [][NextStore]_vars
-----------------------------------------------------------------------------
(* The calls of SmartFeatures *)

MaxCalls == 7         \* check_spam is called at most this many times
SpamStep == 15        \* the clock of the spam filter advances in steps of this
MaxSpamClock == 30    \* and stops here
GreetStep == 1800     \* the clock of the greeting advances in steps of this
MaxGreetClock == 10800  \* and stops here

\* the number of calls of check_spam so far
Called ==
    LET RECURSIVE Sum(_)
        Sum(S) == IF S = {} THEN 0
                  ELSE LET x == CHOOSE y \in S : TRUE
                       IN  Len(spam_history[x]) + Sum(S \ {x})
    IN  Sum(DOMAIN spam_history)

TickSeconds ==
    /\ out = Idle
    /\ clock + SpamStep <= MaxSpamClock
    /\ clock' = clock + SpamStep
    /\ UNCHANGED <<now, last_activity, query_logs, knowledge, knowledge_fts,
                   sqlite_sequence, last_sync, user_interests, user_message_count,
                   user_warnings, last_greeting_time, spam_history, greet_history,
                   greet_asked, kb, loop, out>>

TickHalfHours ==
    /\ out = Idle
    /\ clock + GreetStep <= MaxGreetClock
    /\ clock' = clock + GreetStep
    /\ UNCHANGED <<now, last_activity, query_logs, knowledge, knowledge_fts,
                   sqlite_sequence, last_sync, user_interests, user_message_count,
                   user_warnings, last_greeting_time, spam_history, greet_history,
                   greet_asked, kb, loop, out>>

\* check_spam(user_id, chat_id)
CheckSpam ==
    /\ out = Idle
    /\ Called < MaxCalls
    /\ \E user_id \in {1, 2}, chat_id \in Chats :
         \E r \in {check_spam(user_message_count, user_warnings, user_id, chat_id, clock)} :
           /\ user_message_count' = r.user_message_count
           /\ user_warnings' = r.user_warnings
           /\ spam_history' = Assign(spam_history, chat_key(chat_id, user_id),
                                     Append(list_at(spam_history, chat_key(chat_id, user_id)),
                                            clock))
           /\ out' = [op |-> "check_spam", user_id |-> user_id, chat_id |-> chat_id,
                      is_spam |-> r.is_spam, warning_level |-> r.warning_level]
    /\ UNCHANGED <<now, last_activity, query_logs, knowledge, knowledge_fts,
                   sqlite_sequence, last_sync, user_interests, clock,
                   last_greeting_time, greet_history, greet_asked, kb, loop>>

\* should_greet_chat(chat_id, hours)
ShouldGreetChat ==
    /\ out = Idle
    /\ \E chat_id \in Chats, hours \in {1, 2} :
         \E r \in {should_greet_chat(last_greeting_time, chat_id, hours, clock)} :
           /\ last_greeting_time' = r.last_greeting_time
           /\ greet_asked' = greet_asked \cup {chat_id}
           /\ greet_history' =
                 IF r.result
                 THEN Assign(greet_history, chat_id,
                             (IF chat_id \in DOMAIN greet_history
                              THEN greet_history[chat_id] ELSE {})
                             \cup {[at |-> clock, hours |-> hours]})
                 ELSE greet_history
           /\ out' = [op |-> "should_greet_chat", chat_id |-> chat_id, hours |-> hours,
                      result |-> r.result, first |-> chat_id \notin greet_asked]
    /\ UNCHANGED <<now, last_activity, query_logs, knowledge, knowledge_fts,
                   sqlite_sequence, last_sync, user_interests, clock,
                   user_message_count, user_warnings, spam_history, kb, loop>>

\* the spam filter
NextSpam == TickSeconds \/ CheckSpam \/ Return
SpecSpam == Init /\ [][NextSpam]_vars

\* the periodic greeting
NextGreet == TickHalfHours \/ ShouldGreetChat \/ Return
SpecGreet == Init /\ [][NextGreet]_vars

-----------------------------------------------------------------------------
(* The calls of KnowledgeBase of src/kb.py *)

MaxKbId == 12     \* add_knowledge is called while the largest id is below this

\* the ids of the calls: a seeded entry, an added one, and one that never exists
KbIds == {1, MaxKbId - 1, MaxKbId + 1}

KbAddKnowledge ==
    /\ out = Idle
    /\ kb_sequence < MaxKbId
    /\ \E topic \in {Absent, <<"G","i","t">>}, content \in {<<"t","r","a","c","k","s"," ","c","h","a","n","g","e","s">>}, keywords \in {<<>>, <<"v","c","s">>} :
         \E r \in {kb_add_knowledge(TheKb, topic, content, keywords)} :
           /\ kb_knowledge' = r.store.knowledge
           /\ kb_fts' = r.store.knowledge_fts
           /\ kb_sequence' = r.store.sequence
           /\ out' = [op |-> "kb.add_knowledge", topic |-> topic, raised |-> r.raised]
    /\ UNCHANGED <<now, last_activity, query_logs, knowledge, knowledge_fts,
                   sqlite_sequence, last_sync, user_interests, smart, loop>>

KbUpdateKnowledge ==
    /\ out = Idle
    /\ \E knowledge_id \in KbIds, topic \in {Absent, <<>>, <<"G","i","t"," ","b","a","s","i","c","s">>},
          content \in {Absent, <<"b","r","a","n","c","h","e","s"," ","a","n","d"," ","c","o","m","m","i","t","s">>}, keywords \in {Absent, <<"g","i","t">>} :
         /\ \E s \in {kb_update_knowledge(TheKb, knowledge_id, topic, content, keywords)} :
              /\ kb_knowledge' = s.knowledge
              /\ kb_fts' = s.knowledge_fts
              /\ kb_sequence' = s.sequence
         /\ out' = [op |-> "kb.update_knowledge", knowledge_id |-> knowledge_id,
                    topic |-> topic, content |-> content, keywords |-> keywords,
                    existed |-> \E k \in kb_knowledge : k.id = knowledge_id]
    /\ UNCHANGED <<now, last_activity, query_logs, knowledge, knowledge_fts,
                   sqlite_sequence, last_sync, user_interests, smart, loop>>

KbDeleteKnowledge ==
    /\ out = Idle
    /\ \E knowledge_id \in KbIds :
         /\ \E s \in {kb_delete_knowledge(TheKb, knowledge_id)} :
              /\ kb_knowledge' = s.knowledge
              /\ kb_fts' = s.knowledge_fts
              /\ kb_sequence' = s.sequence
         /\ out' = [op |-> "kb.delete_knowledge", knowledge_id |-> knowledge_id,
                    existed |-> \E k \in kb_knowledge : k.id = knowledge_id]
    /\ UNCHANGED <<now, last_activity, query_logs, knowledge, knowledge_fts,
                   sqlite_sequence, last_sync, user_interests, smart, loop>>

\* the maintenance of the table of src/kb.py
NextKb == KbAddKnowledge \/ KbUpdateKnowledge \/ KbDeleteKnowledge \/ Return
SpecKb == Init /\ [][NextKb]_vars

-----------------------------------------------------------------------------
(* handle_group_message on the event loop (src/main.py).  A coroutine runs from the  *)
(* point where the loop resumes it to its next await; the loop resumes another one   *)
(* only then.  The positions of a coroutine: received (the update is queued),        *)
(* recorded (analyze_message has written last_activity), decided (analyze_message    *)
(* has returned), formatted (generate_response has returned), asleep (suspended in   *)
(* await asyncio.sleep), sending (suspended in await reply_text), done.              *)

\* an await after the decision as well
suspended_after_decision(position) ==
    position \in {"received", "decided", "asleep", "sending", "done"}

\* the positions at which the coroutine does not hold the loop: before its start, in
\* its two awaits and after its end
suspended(position) == position \in {"received", "asleep", "sending", "done"}

\* the loop may run a step of the coroutine
Runnable(t) == running = t \/ (running = 0 /\ suspended(tasks[t].pc))

\* the coroutine is at the position and keeps or gives up the loop
Moves(t, task) ==
    /\ tasks' = [tasks EXCEPT ![t] = task]
    /\ running' = IF suspended(task.pc) THEN 0 ELSE t

LoopMessages == {<<"e","v","a">>, <<"o","k"," ","t","h","a","n","k","s">>}

\* analyze_message, first half: self.last_activity[str(chat_id)] = datetime.now()
RecordActivity(t) ==
    /\ tasks[t].pc = "received"
    /\ Runnable(t)
    /\ \E message \in LoopMessages, user_id \in {1, 2}, chat_id \in Chats :
         /\ last_activity' = record_activity(last_activity, chat_id, now)
         /\ writer' = Assign(writer, str(chat_id), t)
         /\ Moves(t, [pc |-> "recorded", message |-> message, user_id |-> user_id,
                      chat_id |-> chat_id])
    /\ UNCHANGED <<now, query_logs, knowledge, knowledge_fts, sqlite_sequence, last_sync,
                   user_interests, smart, kb, out>>

\* analyze_message, second half: decide_response, whose quiet test reads last_activity
Decide(t) ==
    /\ tasks[t].pc = "recorded"
    /\ Runnable(t)
    /\ \E r \in {0, 90}, dbFails \in BOOLEAN :
         \E d \in {decide_response(Normalize(tasks[t].message), tasks[t].user_id,
                                   tasks[t].chat_id, last_activity, now, 0, r,
                                   dbFails)} :
           Moves(t, [tasks[t] EXCEPT
                        !.pc = IF d.respond /\ d.category # "None" THEN "decided"
                               ELSE "done"]
                    @@ [category |-> d.category,
                        read_from |-> writer[str(tasks[t].chat_id)]])
    /\ UNCHANGED <<now, last_activity, query_logs, knowledge, knowledge_fts,
                   sqlite_sequence, last_sync, user_interests, smart, kb, writer, out>>

\* generate_response(message, response_type, user_id, chat_id)
Generate(t) ==
    /\ tasks[t].pc = "decided"
    /\ Runnable(t)
    /\ \E clean \in {clean_message(Normalize(tasks[t].message))} :
         /\ clean # <<>> => query_logs[tasks[t].user_id] < MaxLogged
         /\ \E rank \in Ranks(knowledge, knowledge_fts, clean) :
              \E fz \in Similarities(kb_search(knowledge, knowledge_fts, clean, 15, rank,
                                               FALSE), clean) :
                \E found \in {intelligent_search(knowledge, knowledge_fts, user_interests,
                                  clean, tasks[t].user_id, 60, rank, fz, FALSE)} :
                  \E g \in {generate_response(Normalize(tasks[t].message),
                                tasks[t].category, tasks[t].user_id, found, FALSE)} :
                    /\ g.tracked => Tracked < MaxTracked
                    /\ query_logs' = g.query_logs
                    /\ user_interests' = g.user_interests
                    /\ Moves(t, [tasks[t] EXCEPT
                                    !.pc = IF g.reply # None THEN "formatted" ELSE "done"])
    /\ UNCHANGED <<now, last_activity, knowledge, knowledge_fts, sqlite_sequence,
                   last_sync, smart, kb, writer, out>>

\* await asyncio.sleep(delay)
Sleep(t) ==
    /\ tasks[t].pc = "formatted"
    /\ Runnable(t)
    /\ Moves(t, [tasks[t] EXCEPT !.pc = "asleep"])
    /\ UNCHANGED <<now, last_activity, query_logs, knowledge, knowledge_fts,
                   sqlite_sequence, last_sync, user_interests, smart, kb, writer, out>>

\* the sleep is over: await update.message.reply_text(...)
Send(t) ==
    /\ tasks[t].pc = "asleep"
    /\ Runnable(t)
    /\ Moves(t, [tasks[t] EXCEPT !.pc = "sending"])
    /\ UNCHANGED <<now, last_activity, query_logs, knowledge, knowledge_fts,
                   sqlite_sequence, last_sync, user_interests, smart, kb, writer, out>>

\* the reply is sent or the sending raised: increment_bot_interaction, the end
Finish(t) ==
    /\ tasks[t].pc = "sending"
    /\ Runnable(t)
    /\ Moves(t, [tasks[t] EXCEPT !.pc = "done"])
    /\ UNCHANGED <<now, last_activity, query_logs, knowledge, knowledge_fts,
                   sqlite_sequence, last_sync, user_interests, smart, kb, writer, out>>

HandleGroupMessage ==
    \E t \in TaskIds :
        \/ RecordActivity(t) \/ Decide(t) \/ Generate(t)
        \/ Sleep(t) \/ Send(t) \/ Finish(t)

\* the handlers of the group messages
NextLoop == Tick \/ HandleGroupMessage
SpecLoop == Init /\ [][NextLoop]_vars


-----------------------------------------------------------------------------
(* The response decision: properties of analyze_message, under Spec *)

\* the last call was analyze_message and it ended without an error of the database
Analyzed == out.op = "analyze_message" /\ ~out.raised

\* the candidates of the last call hold one of this category
HasCandidate(category) ==
    \E i \in 1..Len(out.candidates) : out.candidates[i][1] = category

\* C1: a message that contains a direct bot-mention token is always answered, whoever
\* sends it and whatever the draw, and the category returned is one for which
\* generate_response searches the knowledge base
C1_MentionAlwaysSearched ==
    (Analyzed /\ AnyIn(bot_mentions, Normalize(out.message)))
        => (out.respond /\ should_search(out.category))

\* C3: when the chat had no recorded activity, or its last recorded activity was longer
\* ago than the quiet threshold, the conversation-starter candidate is among the
\* candidates built for the message
C3_QuietChatHasStarter ==
    (out.op = "analyze_message"
        /\ (out.before = -1 \/ out.at - out.before > QuietMinutes))
        => HasCandidate("conversation_starter")

\* C4: when the last recorded activity of the chat is within the quiet threshold, no
\* conversation-starter candidate is generated, and 'hello everyone' yields exactly one
\* candidate, the greeting
C4_ActiveChatNoStarter ==
    (out.op = "analyze_message"
        /\ out.before # -1 /\ out.at - out.before <= QuietMinutes)
        => /\ ~HasCandidate("conversation_starter")
           /\ out.message = <<"h","e","l","l","o"," ","e","v","e","r","y","o","n","e">>
                => /\ Len(out.candidates) = 1
                   /\ out.candidates[1][1] = "greeting"
                   /\ out.candidates[1][2] \in 70..80

\* 'hello everyone' was sent to a chat active within the threshold: one greeting candidate
C4_Witness ==
    /\ out.op = "analyze_message"
    /\ out.message = <<"h","e","l","l","o"," ","e","v","e","r","y","o","n","e">>
    /\ out.before # -1 /\ out.at - out.before <= QuietMinutes
    /\ out.candidates = << <<"greeting", 75>> >>

\* C7: with a top candidate of weight w and a draw r, analyze_message responds, with the
\* category of the top candidate, exactly when r < w, whoever the sender is
C7_RespondsIffDrawBelowWeight ==
    (Analyzed /\ out.candidates # <<>>)
        => LET top_response == SortByWeight(out.candidates)[1]
           IN  /\ out.respond <=> out.r < top_response[2]
               /\ out.respond => out.category = top_response[1]

\* C8: when no rule matches the normalized message, analyze_message returns
\* (False, None) and raises nothing, whatever the state of the chat and the draws
C8_NoSignalNoResponse ==
    (out.op = "analyze_message" /\ TextTypes[Normalize(out.message)] = <<>>)
        => /\ ~out.respond
           /\ out.category = "None"
           /\ ~out.raised

\* a whitespace-only message was sent to a chat without recorded activity: no response
C8_Witness ==
    /\ out.op = "analyze_message"
    /\ out.message = <<" ","\t"," ">>
    /\ out.before = -1
    /\ out.candidates = <<>>
    /\ ~out.respond /\ out.category = "None" /\ ~out.raised

\* C17: every call of analyze_message sets the last-activity time of its chat to the
\* time of the call, whatever it decides, and leaves the time of every other chat as it
\* was; the record of a chat, once created, is never removed by any step
C17_ActivityRecorded ==
    [][ /\ DOMAIN last_activity \subseteq DOMAIN last_activity'
        /\ (out = Idle /\ out'.op = "analyze_message") =>
              /\ str(out'.chat_id) \in DOMAIN last_activity'
              /\ last_activity'[str(out'.chat_id)] = now
              /\ \A k \in DOMAIN last_activity' \ {str(out'.chat_id)} :
                    k \in DOMAIN last_activity /\ last_activity'[k] = last_activity[k]
      ]_vars

\* a call that decided not to respond has moved the record of its chat, which existed,
\* to the time of the call, while the other chat keeps an older record
C17_Witness ==
    /\ out.op = "analyze_message"
    /\ ~out.respond
    /\ out.before # -1 /\ out.before < out.at
    /\ last_activity[str(out.chat_id)] = out.at
    /\ \E k \in DOMAIN last_activity : k # str(out.chat_id) /\ last_activity[k] < out.at

-----------------------------------------------------------------------------
(* The retrieval: properties of intelligent_search and search, under SpecSearch *)

Searched == out.op = "intelligent_search"

\* the result was appended by the expansion layer
FromExpansion(result) == result.matched_query # Lower(Strip(out.query))

\* C2: every result of intelligent_search(query, threshold) has a score of at least
\* threshold, whether the direct layer or the expansion layer contributed it
C2_ScoresReachThreshold ==
    Searched => \A i \in 1..Len(out.results) :
                    RatLe(Rat(out.threshold), out.results[i].score)

\* C5: the list intelligent_search returns is in order of non-increasing score
C5_SortedByScore ==
    Searched => \A i \in 1..(Len(out.results) - 1) :
                    RatLe(out.results[i + 1].score, out.results[i].score)

\* a result of the expansion layer precedes a result of the direct layer of lower score
C5_Witness ==
    /\ Searched
    /\ \E i, j \in 1..Len(out.results) :
         /\ i < j
         /\ FromExpansion(out.results[i]) /\ ~FromExpansion(out.results[j])
         /\ RatLt(out.results[j].score, out.results[i].score)

\* C6: no two results of one list returned by intelligent_search have the same content
C6_NoDuplicateContent ==
    Searched => \A i, j \in 1..Len(out.results) :
                    i # j => out.results[i].item.answer # out.results[j].item.answer

\* the content two rows of the store share is returned once, with a result of the
\* expansion layer beside it
C6_Witness ==
    /\ Searched
    /\ Cardinality({k \in knowledge : k.content = <<"w","i","n","d","h","o","e","k"," ","i","s"," ","t","h","e"," ","c","a","p","i","t","a","l">>}) > 1
    /\ Cardinality({i \in 1..Len(out.results) :
                       out.results[i].item.answer = <<"w","i","n","d","h","o","e","k"," ","i","s"," ","t","h","e"," ","c","a","p","i","t","a","l">>}) = 1
    /\ \E i \in 1..Len(out.results) : FromExpansion(out.results[i])

\* C9: intelligent_search and search return the empty list for a query that is empty or
\* only whitespace
C9_EmptyQueryEmptyList ==
    (out.op \in {"intelligent_search", "kb_search"} /\ Strip(out.query) = <<>>)
        => out.results = <<>>

\* search was called with a whitespace-only query on a store that holds rows
C9_Witness ==
    /\ out.op = "kb_search"
    /\ out.query = <<" ","\t"," ">>
    /\ knowledge # {}
    /\ out.results = <<>>

\* C10: every result of intelligent_search has a score in [0, 100], also for a user whose
\* interests track_user_interest has recorded
C10_ScoreInRange ==
    Searched => \A i \in 1..Len(out.results) :
                    /\ RatLe(Rat(0), out.results[i].score)
                    /\ RatLe(out.results[i].score, Rat(100))

\* the result comes from the direct layer: it is neither the personal answer nor an
\* expansion result
FromDirect(result) == ~result.is_personal /\ ~FromExpansion(result)

\* C11: a search returns at most limit results, 3 when the caller passes no limit
C11_AtMostLimitResults ==
    Searched => Len(out.results) <= 3

\* C13: the expansion layer contributes results to the returned list only when the
\* direct layer produced no result above the threshold
C13_ExpansionOnlyWithoutDirect ==
    Searched => ((\E i \in 1..Len(out.results) : FromExpansion(out.results[i]))
                    => ~\E j \in 1..Len(out.results) : FromDirect(out.results[j]))

\* C14: every expansion result has one fixed score of about 75, lower than the score
\* of every direct result of the same list
C14_ExpansionScoredBelowDirect ==
    Searched => \A i \in 1..Len(out.results) :
                    FromExpansion(out.results[i])
                        => /\ RatLe(Rat(70), out.results[i].score)
                           /\ RatLe(out.results[i].score, Rat(80))
                           /\ \A j \in 1..Len(out.results) :
                                  FromDirect(out.results[j])
                                      => RatLt(out.results[i].score, out.results[j].score)

\* the canonical terms of which the text is a listed synonym
CanonicalTermsOf(text) ==
    {synonyms[i][1] : i \in {n \in 1..Len(synonyms) : text \in Range(synonyms[n][2])}}

\* C15: a query that is a listed synonym of a canonical term, and for which the direct
\* search finds nothing, is expanded into a query containing the canonical term, and
\* the entry the canonical term matches is returned by the expansion layer
C15_SynonymReachesCanonicalEntry ==
    (Searched /\ ~out.fails)
        => LET clean_query == Lower(Strip(out.query))
               rank == Ascending({k.id : k \in knowledge})
           IN  \A word \in CanonicalTermsOf(clean_query) :
                  (/\ kb_search(knowledge, knowledge_fts, clean_query, 15, rank, FALSE) = <<>>
                   /\ kb_search(knowledge, knowledge_fts, word, 8, rank, FALSE) # <<>>)
                      => \E i \in 1..Len(out.results) :
                            /\ FromExpansion(out.results[i])
                            /\ Contains(out.results[i].matched_query, word)

\* no word of the query or of one of its expansions occurs anywhere in a row of the store
MentionedNowhere(query) ==
    LET clean_query == Lower(Strip(query))
        text(k) == Lower(k.topic \o <<" ">> \o k.content \o <<" ">> \o k.keywords
                         \o <<" ">> \o k.category)
    IN  \A q \in Range(expanded_queries_of(clean_query)) :
           \A term \in Range(Split(q)) :
              \A k \in knowledge : ~Contains(text(k), term)

-----------------------------------------------------------------------------
(* The reply: properties of generate_response, under SpecReply *)

Generated == out.op = "generate_response" /\ ~out.raised

\* C18: for every category analyze_message can decide and every message,
\* generate_response returns a reply and never None, also when the knowledge search
\* returned nothing or the category does no search
C18_AlwaysReplies ==
    Generated => /\ out.reply # None
                 /\ out.reply.kind \in {"personal_id", "knowledge", "canned"}

\* a search was made for a question, returned nothing, and a canned reply was given
C18_Witness ==
    /\ Generated
    /\ out.response_type = "question"
    /\ out.searched /\ out.results = <<>>
    /\ out.reply.kind = "canned"

\* C19: generate_response searches the knowledge only for a category that requires
\* knowledge and a non-empty cleaned message, never for a greeting or a conversation
\* starter, and a search that returns results is answered from the first of them, which
\* has the highest score
C19_SearchOnlyForKnowledge ==
    Generated =>
        /\ out.searched =>
              /\ out.response_type \in {"direct_mention", "question", "specific_topic",
                                        "namibia_mention", "travel", "supervision"}
              /\ out.clean_message # <<>>
        /\ out.response_type \in {"greeting", "conversation_starter"} => ~out.searched
        /\ ~out.searched => out.results = <<>>
        /\ out.results # <<>> =>
              /\ out.reply.kind = "knowledge"
              /\ out.reply.question = out.results[1].item.question
              /\ out.reply.answer = out.results[1].item.answer
              /\ \A i \in 1..Len(out.results) :
                    ~RatLt(out.results[1].score, out.results[i].score)

\* a search returned two results of different scores and the reply shows the first
C19_Witness ==
    /\ Generated
    /\ out.searched
    /\ Len(out.results) >= 2
    /\ RatLt(out.results[2].score, out.results[1].score)
    /\ out.reply.kind = "knowledge"
    /\ out.reply.answer = out.results[1].item.answer

-----------------------------------------------------------------------------
(* The maintenance of the store: properties of the tables, under SpecStore *)

\* C12: whatever add_knowledge calls, syncs and seedings were made, the table holds at
\* most one entry per pair (topic, category), and a successful add_knowledge of a pair
\* leaves exactly one entry of it, with the content and keywords of the call, the entry
\* it found there being gone
C12_OneEntryPerPair ==
    /\ \A k1, k2 \in knowledge :
          (k1.topic = k2.topic /\ k1.category = k2.category) => k1 = k2
    /\ (out.op = "add_knowledge" /\ out.ok) =>
          /\ Cardinality(conflicts(knowledge, out.item)) = 1
          /\ \A k \in conflicts(knowledge, out.item) :
                k.content = out.item.content /\ k.keywords = out.item.keywords
          /\ out.replaced \cap knowledge = {}

\* add_knowledge succeeded for a pair whose entry had another content
C12_Witness ==
    /\ out.op = "add_knowledge" /\ out.ok
    /\ \E old \in out.replaced : old.content # out.item.content
    /\ Cardinality(knowledge) > 1

\* C20: after any sequence of syncs, add_knowledge calls and seedings, every row of
\* knowledge_fts refers to an entry that is still in the table knowledge
C20_IndexRefersToEntries ==
    \A f \in knowledge_fts : \E k \in knowledge : k.id = f.rowid


-----------------------------------------------------------------------------
(* The response decision, continued: properties of decide_response, under Spec *)

\* the rule of a category matches the normalized message
RuleMatches(category, message) ==
    CASE category = "personal_id" -> AnyIn(personal_terms, message)
      [] category = "direct_mention" -> AnyIn(bot_mentions, message)
      [] category = "question" ->
             \/ Contains(message, <<"?">>)
             \/ \E i \in 1..Len(question_words) : StartsWith(message, question_words[i])
      [] category = "namibia_mention" -> Contains(message, <<"n","a","m","i","b","i","a">>)
      [] category = "specific_topic" -> AnyIn(kb_topics, message)
      [] category = "travel" -> AnyIn(travel_words, message)
      [] category = "supervision" -> AnyIn(supervision_triggers, message)

\* C22: the category of a positive decision is that of a candidate of maximal weight,
\* the first of them in the order of the rules, and every rule the message matches has
\* its candidate among those the selection is made from
C22_TopCandidateWins ==
    Analyzed =>
        /\ \A category \in {"personal_id", "direct_mention", "question", "namibia_mention",
                            "specific_topic", "travel", "supervision"} :
              RuleMatches(category, Normalize(out.message)) => HasCandidate(category)
        /\ out.respond =>
              \E i \in 1..Len(out.candidates) :
                 /\ out.candidates[i][1] = out.category
                 /\ \A j \in 1..Len(out.candidates) :
                       /\ out.candidates[j][2] <= out.candidates[i][2]
                       /\ j < i => out.candidates[j][2] < out.candidates[i][2]

\* a positive decision for a message of two candidates, the heavier of which comes
\* second in the order of the rules
C22_Witness ==
    /\ Analyzed /\ out.respond
    /\ Len(out.candidates) >= 2
    /\ out.candidates[1][2] < out.candidates[2][2]
    /\ out.category = out.candidates[2][1]


\* the words of the vocabulary entry follow each other among the words of the message
HasWords(message, entry) ==
    LET words == Split(message)
        wanted == Split(entry)
    IN  \E i \in 0..(Len(words) - Len(wanted)) :
           SubSeq(words, i + 1, i + Len(wanted)) = wanted

\* C24: a message produces the greeting candidate when it contains an entry of the
\* greeting vocabulary as whole word(s), and does not produce it when no entry occurs
\* in it as whole word(s)
C24_GreetingWholeWords ==
    Analyzed =>
        (HasCandidate("greeting")
            <=> \E i \in 1..Len(greetings) : HasWords(Normalize(out.message), greetings[i]))


\* the whitespace-delimited words of the query that are longer than 2 characters
QueryTokens(clean_query) == {w \in Range(Split(Lower(clean_query))) : Len(w) > 2}

\* the entry's lowercase keyword tags
KeywordTags(result) ==
    LET keywords == keywords_of(result)
    IN  {Strip(Lower(keywords[i])) : i \in {j \in 1..Len(keywords) : Strip(keywords[j]) # <<>>}}

\* 100 * |Q \cap K| / max(|Q|, |K|)
OverlapScore(Q, K) ==
    LET qn == Cardinality(Q)
        kn == Cardinality(K)
    IN  <<100 * Cardinality(Q \cap K), IF qn > kn THEN qn ELSE kn>>

\* C23: for the query of a search and every entry with a non-empty keyword set, the
\* keyword score intelligent_search uses is 100 * |Q \cap K| / max(|Q|, |K|), K the
\* entry's lowercase keyword tags and Q the words of the lowercase query longer than
\* 2 characters
C23_KeywordScoreFormula ==
    (Searched /\ Strip(out.query) # <<>>) =>
        \A k \in knowledge :
            KeywordTags(k) # {} =>
                LET clean_query == Lower(Strip(out.query))
                    used == keyword_score(clean_query, k)
                    said == OverlapScore(QueryTokens(clean_query), KeywordTags(k))
                IN  RatLe(used, said) /\ RatLe(said, used)


-----------------------------------------------------------------------------
(* The CSV sync and the constructor of KnowledgeBase *)

\* sync_with_csv has just fetched the file and written its rows
Synced == out.op = "sync_with_csv" /\ out.ok /\ last_sync # out.before

\* the file of the sync has a row of the pair of the entry
InFile(k) ==
    \E i \in 1..Len(out.fetched.csv_data) :
        /\ out.fetched.csv_data[i].topic = k.topic
        /\ out.fetched.csv_data[i].category = k.category

\* C26: a CSV sync neither deletes nor changes an entry of source 'manual': every
\* manual entry of the table before the sync is in it afterwards with the same topic,
\* category, content and keywords, a row of the same pair in the file notwithstanding
C26_SyncKeepsManualEntries ==
    [][(out = Idle /\ out'.op = "sync_with_csv") =>
          \A k \in knowledge :
              k.source = "manual" =>
                  \E x \in knowledge' :
                      /\ x.topic = k.topic /\ x.category = k.category
                      /\ x.content = k.content /\ x.keywords = k.keywords
                      /\ x.source = "manual"]_vars

C26_Witness ==
    /\ Synced
    /\ \E k \in knowledge :
          /\ k.source = "manual"
          /\ InFile(k)
          /\ \A i \in 1..Len(out.fetched.csv_data) : out.fetched.csv_data[i].content # k.content

Failing(o) == o.fetched.raised \/ o.fetched.csv_data = <<>> \/ o.raises

\* sync_with_csv fetches: the table is empty or the last sync is sync_interval old
Due == ~(has_data(knowledge) /\ last_sync # Never /\ now - last_sync < sync_interval)

-----------------------------------------------------------------------------
(* SmartFeatures *)

Greeted == out.op = "should_greet_chat"

\* the recorded time of the chat is another after the step
GreetingTimeChanges(chat_id) ==
    /\ chat_id \in DOMAIN last_greeting_time'
    /\ chat_id \in DOMAIN last_greeting_time =>
           last_greeting_time'[chat_id] # last_greeting_time[chat_id]

\* C25: the recorded last-greeting time of a chat changes exactly in the calls of
\* should_greet_chat for that chat that return True; the first call for a chat returns
\* True; two calls for one chat that both return True are more than hours hours apart,
\* whatever calls happen in between
C25_GreetingTimeAndPeriod ==
    /\ [](Greeted =>
            /\ out.first => out.result
            /\ \A c \in DOMAIN greet_history :
                  \A a, b \in greet_history[c] :
                      (a # b /\ a.at <= b.at) => b.at - a.at > b.hours * 3600)
    /\ [][\A c \in Chats :
            GreetingTimeChanges(c)
                <=> (out = Idle /\ out'.op = "should_greet_chat" /\ out'.chat_id = c
                       /\ out'.result)]_vars

C25_Witness ==
    /\ Greeted /\ out.result /\ ~out.first
    /\ Cardinality(greet_history[out.chat_id]) >= 2
    /\ \E c \in greet_asked : c # out.chat_id

SpamChecked == out.op = "check_spam"

\* the calls of check_spam for the key whose time is less than 30 seconds before t
CallsWithin(key, t) ==
    Cardinality({i \in 1..Len(spam_history[key]) : t - spam_history[key][i] < 30})

\* C29: check_spam(user, chat) reports spam exactly when more than 5 calls of that user
\* for that chat, the current one among them, fall within the preceding 30 seconds,
\* whatever other users and other chats do; a report of spam raises the warning level
\* of that user in that chat by one, and no step lowers a warning level
C29_SpamWindowAndWarnings ==
    /\ [](SpamChecked =>
            (out.is_spam <=> CallsWithin(chat_key(out.chat_id, out.user_id), clock) > 5))
    /\ [][/\ DOMAIN user_warnings \subseteq DOMAIN user_warnings'
          /\ \A key \in DOMAIN user_warnings' :
                IF /\ out = Idle /\ out'.op = "check_spam" /\ out'.is_spam
                   /\ key = chat_key(out'.chat_id, out'.user_id)
                THEN /\ user_warnings'[key] = int_at(user_warnings, key) + 1
                     /\ out'.warning_level = user_warnings'[key]
                ELSE user_warnings'[key] = int_at(user_warnings, key)]_vars

C29_Witness ==
    /\ SpamChecked /\ out.is_spam
    /\ \E key \in DOMAIN spam_history : key # chat_key(out.chat_id, out.user_id)

-----------------------------------------------------------------------------
(* The index of src/kb.py *)

\* C30: after any calls of add_knowledge, update_knowledge and delete_knowledge of
\* src/kb.py the index holds one row for each entry of the table, with the id, the
\* topic, the content and the keywords of the entry, and no row for an entry that is
\* not in the table
C30_KbIndexMirrorsTable ==
    /\ \A k \in kb_knowledge :
          /\ Cardinality({f \in kb_fts : f.rowid = k.id}) = 1
          /\ [rowid |-> k.id, topic |-> k.topic, content |-> k.content,
              keywords |-> k.keywords] \in kb_fts
    /\ \A f \in kb_fts : \E k \in kb_knowledge : k.id = f.rowid

C30_Witness ==
    /\ out.op = "kb.delete_knowledge" /\ out.existed /\ out.knowledge_id = 1
    /\ \E k \in kb_knowledge : k.id = MaxKbId - 1 /\ k.topic = <<"G","i","t"," ","b","a","s","i","c","s">>


-----------------------------------------------------------------------------
(* The event loop *)

\* the message of the coroutine is between the start of its decision and its await
Processing(t) == tasks[t].pc \in {"recorded", "decided", "formatted"}

\* C21: from the decision of a message to the end of the formatting of its reply no
\* step of the handling of another message happens, and the last-activity value the
\* quiet test of a message reads is the one that message wrote; what overlaps with the
\* handling of other messages is the delayed sending of the reply only
C21_NoInterleavingBeforeTheSend ==
    /\ [](\A t \in TaskIds :
            /\ Processing(t) => \A u \in TaskIds \ {t} : ~Processing(u)
            /\ "read_from" \in DOMAIN tasks[t] => tasks[t].read_from = t)
    /\ [][\A t \in TaskIds :
            Processing(t) => /\ \A u \in TaskIds \ {t} : tasks'[u] = tasks[u]
                             /\ last_activity' = last_activity]_vars

C21_Witness ==
    \E t, u \in TaskIds :
        /\ tasks[t].pc = "asleep" /\ tasks[u].pc = "decided"
        /\ tasks[t].chat_id = tasks[u].chat_id

====
